---- MODULE Spec2Model ----
(***************************************************************************)
(* turbokit::HashMap<int, int> (hash_map.h): a primary slot array          *)
(* (main_table) and a shared overflow array (collision_table) walked by    *)
(* bounded linear probing.  A slot array is modelled by its allocated      *)
(* length plus the function from its live indices to their entries: an     *)
(* index outside that function's domain is a slot whose chain_length /     *)
(* main_index is invalid_marker.                                           *)
(***************************************************************************)
EXTENDS Integers, FiniteSets, Sequences, TLC

\* ------------------------------------------------------------- bounds
NumKeys == 5
NumValues == 1
MaxReserve == 2
MaxSecond == 2
MaxAskLog == 4
ScenarioReserve == 128
ScenarioKeys == 100
ScenarioDKeys == 10
\* threads and increments per thread of the mutex test (8 and 1000 there)
NumThreads == 3
Iterations == 2
MaxResize == 3

Keys == 0 .. (NumKeys - 1)
Values == 1 .. NumValues
ReserveArgs == 1 .. MaxReserve
\* The hash functions the map is instantiated with: std::hash<int> (the
\* identity) and a colliding hash whose two home buckets are adjacent and
\* straddle the end of the table (hash values 15 and 16).
HashKinds == {"identity", "wrap"}
\* A degenerate hash, every key in bucket 0, is "zero".

\* ---------------------------------------------------- program constants
invalid_marker == -1
SizeofMainEntry == 16
BaselineCapacity == 16
SmallTableLimit == (1024 * 1024) \div SizeofMainEntry
LargeTableLimit == (1024 * 1024 * 4) \div SizeofMainEntry
ChainLimit == 4
DefaultValue == 0
\* std::numeric_limits<size_t>::max() / 2 where size_t has 32 bits (2^31 - 1,
\* the largest integer the checker represents; 2^63 - 1 where size_t has 64)
SizeMaxHalf == 2147483647
\* sizeof(size_t) and sizeof(int) (the mapped_type of HashMap<int, int>)
SizeofSizeT == 8
SizeofMappedType == 4
\* sizeof(int), and offsetof(MainEntry, value) = offsetof(CollisionEntry,
\* value) for ValueType int and for ValueType std::string (8-byte aligned)
SizeofKeyType == 4
OffsetOfIntValue == 4
OffsetOfStringValue == 8
ValueOffsets == {OffsetOfIntValue, OffsetOfStringValue}

VARIABLES
  bucket_count,      \* size_t bucket_count
  element_count,     \* size_t element_count
  main_table,        \* MainEntry *main_table
  collision_table,   \* CollisionEntry *collision_table
  hash_kind,         \* the HashFunction template argument
  last,              \* the last public call and the path it took
  shadow,            \* history: the pairs a reference dictionary would hold
  is_locked,         \* std::atomic<bool> SpinMutex::is_locked
  shared_counter,    \* std::atomic<int> shared_counter of the access test
  pc,                \* where each thread stands in lock/try_lock/unlock
  old_val,           \* each thread's local int old_val
  iteration,         \* each thread's loop variable j
  holds,             \* history: the thread's last acquisition succeeded
  tried              \* history: what the thread's last try_lock() returned

map_vars == <<bucket_count, element_count, main_table, collision_table,
              hash_kind, last, shadow>>

mutex_vars == <<is_locked, shared_counter, pc, old_val, iteration, holds, tried>>

vars == <<map_vars, mutex_vars>>

\* ------------------------------------------------- SpinMutex, constructed
\* The threads of the test, each about to run its loop; is_locked = false.
Threads == 1 .. NumThreads

NotTried == [called |-> FALSE, result |-> FALSE, held |-> FALSE]

MutexInit ==
  /\ is_locked = FALSE
  /\ shared_counter = 0
  /\ pc = [t \in Threads |-> "start"]
  /\ old_val = [t \in Threads |-> 0]
  /\ iteration = [t \in Threads |-> 0]
  /\ holds = [t \in Threads |-> FALSE]
  /\ tried = [t \in Threads |-> NotTried]

\* ------------------------------------------------------------ helpers
isInvalid(v) == v = invalid_marker

RECURSIVE BitAnd(_, _)
\* a & b on non-negative integers
BitAnd(a, b) ==
  IF a = 0 \/ b = 0 THEN 0
  ELSE (a % 2) * (b % 2) + 2 * BitAnd(a \div 2, b \div 2)

\* x & mask where mask is size_t(bucket_count - 1): all ones when bucket_count is 0
Masked(x, mask) == IF mask < 0 THEN x ELSE BitAnd(x, mask)

MinOf(S) == CHOOSE x \in S : \A y \in S : x <= y

HashFunction(key) ==
  CASE hash_kind = "identity" -> key
    [] hash_kind = "wrap" -> 15 + (key % 2)
    [] hash_kind = "zero" -> 0

EqualityFunction(a, b) == a = b

\* A null table pointer, and a table of n slots that are all invalid.  `base`
\* tells the storage of one HashMap object from that of another: it is the
\* object (its `self`) whose call of allocate returned the array, 0 for none.
NullTable == [null |-> TRUE, size |-> 0, slot |-> <<>>, base |-> 0]
allocate(n, self) == [null |-> FALSE, size |-> n, slot |-> <<>>, base |-> self]

\* The HashMap object, with how the call that left it so ended: `aborted`
\* when the process was terminated (std::abort, std::terminate), `thrown`
\* when the call left by the std::range_error of reserve.  `resized` is
\* history: the reallocations made by the calls the record went through,
\* each with the capacity before it and the capacity it allocated.
This == [bucket_count |-> bucket_count, element_count |-> element_count,
         main_table |-> main_table, collision_table |-> collision_table,
         aborted |-> FALSE, thrown |-> FALSE, self |-> 1, resized |-> <<>>]

HashMapInit == [bucket_count |-> 0, element_count |-> 0,
                main_table |-> NullTable, collision_table |-> NullTable,
                aborted |-> FALSE, thrown |-> FALSE, self |-> 1, resized |-> <<>>]

\* A second, default-constructed HashMap object.
Other == [HashMapInit EXCEPT !.self = 2]

\* main_table[i].chain_length and collision_table[i].main_index
ChainLength(m, i) ==
  IF i \in DOMAIN m.main_table.slot THEN m.main_table.slot[i].chain_length
  ELSE invalid_marker
MainIndex(m, i) ==
  IF i \in DOMAIN m.collision_table.slot THEN m.collision_table.slot[i].main_index
  ELSE invalid_marker

\* Slot references (ValueType *value_ptr)
nullptr == [tab |-> "null", idx |-> 0]
MainPtr(i) == [tab |-> "main", idx |-> i]
CollisionPtr(i) == [tab |-> "collision", idx |-> i]

iterator(bi, ci, vp) == [bucket_index |-> bi, collision_index |-> ci, value_ptr |-> vp]

end == iterator(0, 0, nullptr)

\* Variant: a cursor comparison over every field of the cursor.
IterEq_AllFields(a, b) == a = b

\* bool iterator::operator==
IterEq(a, b) == a.value_ptr = b.value_ptr

\* ------------------------------------------------------------- lookup
\* the lambda `equal` of find_in_collision_chain
equal(m, entry, bucket_idx, key) ==
  /\ MainIndex(m, entry) = bucket_idx
  /\ EqualityFunction(m.collision_table.slot[entry].key, key)

RECURSIVE ChainSwitch(_, _, _, _, _, _, _, _)
\* The unrolled switch: `c` is the case label entered (4 for default).
\* Returns either a result iterator or the loop state after the switch.
ChainSwitch(m, bucket_idx, key, end_ptr, c, current_ptr, collision_idx, chain_len) ==
  LET mask == m.bucket_count - 1 IN
  IF equal(m, current_ptr, bucket_idx, key)
  THEN [ret |-> TRUE,
        iter |-> iterator(bucket_idx, Masked(collision_idx, mask), CollisionPtr(current_ptr))]
  ELSE IF c = 1
       THEN IF current_ptr + 1 = end_ptr
            THEN [ret |-> TRUE, iter |-> iterator(bucket_idx, end_ptr, nullptr)]
            ELSE [ret |-> FALSE, current_ptr |-> current_ptr + 1,
                  collision_idx |-> collision_idx + 1, chain_len |-> chain_len - 1]
       ELSE ChainSwitch(m, bucket_idx, key, end_ptr, c - 1,
                        current_ptr + 1, collision_idx + 1, chain_len - 1)

\* Variant: the scan gives up after the unrolled switch and one more slot.
ChainLoop_OnePass(m, bucket_idx, key, end_ptr, current_ptr, collision_idx, chain_len) ==
  LET mask == m.bucket_count - 1
      sw == IF end_ptr > current_ptr
            THEN ChainSwitch(m, bucket_idx, key, end_ptr,
                             IF chain_len \in 1 .. 3 THEN chain_len ELSE 4,
                             current_ptr, collision_idx, chain_len)
            ELSE [ret |-> FALSE, current_ptr |-> current_ptr,
                  collision_idx |-> collision_idx, chain_len |-> chain_len]
  IN IF sw.ret THEN sw.iter
     ELSE IF equal(m, sw.current_ptr, bucket_idx, key)
          THEN iterator(bucket_idx, Masked(sw.collision_idx, mask),
                        CollisionPtr(sw.current_ptr))
          ELSE iterator(bucket_idx, end_ptr, nullptr)

RECURSIVE ChainLoop(_, _, _, _, _, _, _)
\* One iteration of the do-while of find_in_collision_chain.
ChainLoop(m, bucket_idx, key, end_ptr, current_ptr, collision_idx, chain_len) ==
  LET mask == m.bucket_count - 1
      wrap_ptr == m.bucket_count
      sw == IF end_ptr > current_ptr
            THEN ChainSwitch(m, bucket_idx, key, end_ptr,
                             IF chain_len \in 1 .. 3 THEN chain_len ELSE 4,
                             current_ptr, collision_idx, chain_len)
            ELSE [ret |-> FALSE, current_ptr |-> current_ptr,
                  collision_idx |-> collision_idx, chain_len |-> chain_len]
  IN IF sw.ret THEN sw.iter
     ELSE IF equal(m, sw.current_ptr, bucket_idx, key)
          THEN iterator(bucket_idx, Masked(sw.collision_idx, mask),
                        CollisionPtr(sw.current_ptr))
          ELSE LET next_ptr == IF sw.current_ptr + 1 = wrap_ptr THEN 0
                               ELSE sw.current_ptr + 1
               IN IF next_ptr # end_ptr
                  THEN ChainLoop(m, bucket_idx, key, end_ptr, next_ptr,
                                 sw.collision_idx + 1, sw.chain_len - 1)
                  ELSE iterator(bucket_idx, end_ptr, nullptr)

\* Variant: the scan starts one slot after the bucket's own index.
find_in_collision_chain_SkipFirst(m, bucket_idx, key) ==
  LET mask == m.bucket_count - 1
      chain_len == ChainLength(m, bucket_idx)
      end_collision_idx == Masked(bucket_idx + chain_len, mask)
      first == Masked(bucket_idx + 1, mask)
  IN IF first = end_collision_idx THEN iterator(bucket_idx, end_collision_idx, nullptr)
     ELSE ChainLoop(m, bucket_idx, key, end_collision_idx, first, bucket_idx + 1,
                    chain_len - 1)

find_in_collision_chain(m, bucket_idx, key) ==
  LET mask == m.bucket_count - 1
      chain_len == ChainLength(m, bucket_idx)
      end_collision_idx == Masked(bucket_idx + chain_len, mask)
  IN ChainLoop(m, bucket_idx, key, end_collision_idx, bucket_idx, bucket_idx, chain_len)

find(m, key) ==
  IF m.main_table.null THEN end
  ELSE LET mask == m.bucket_count - 1
           bucket_idx == Masked(HashFunction(key), mask)
       IN IF isInvalid(ChainLength(m, bucket_idx))
          THEN iterator(bucket_idx, invalid_marker, nullptr)
          ELSE IF EqualityFunction(m.main_table.slot[bucket_idx].key, key)
               THEN iterator(bucket_idx, invalid_marker, MainPtr(bucket_idx))
               ELSE IF ChainLength(m, bucket_idx) = 0
                    THEN iterator(bucket_idx, bucket_idx, nullptr)
                    ELSE find_in_collision_chain(m, bucket_idx, key)

\* ---------------------------------------------------------- iteration
begin(m) ==
  IF m.main_table.null THEN end
  ELSE IF DOMAIN m.main_table.slot # {}
       THEN LET i == MinOf(DOMAIN m.main_table.slot)
            IN iterator(i, invalid_marker, MainPtr(i))
       ELSE IF DOMAIN m.collision_table.slot # {}
            THEN LET i == MinOf(DOMAIN m.collision_table.slot)
                 IN iterator(i, i, CollisionPtr(i))
            ELSE end

\* iterator::operator++, the branch that walks collision_table
IncrCollision(m, it) ==
  LET later == {j \in DOMAIN m.collision_table.slot : j > it.collision_index}
  IN IF later = {}
     THEN iterator(it.bucket_index, m.bucket_count - 1, nullptr)
     ELSE iterator(it.bucket_index, MinOf(later), CollisionPtr(MinOf(later)))

\* Variant: past the last primary slot the cursor moves on from overflow
\* slot 0 without looking at it.
Incr_SkipFirstOverflow(m, it) ==
  IF isInvalid(it.collision_index)
  THEN LET later == {j \in DOMAIN m.main_table.slot : j > it.bucket_index}
       IN IF later # {}
          THEN iterator(MinOf(later), it.collision_index, MainPtr(MinOf(later)))
          ELSE IncrCollision(m, iterator(invalid_marker, 0, CollisionPtr(0)))
  ELSE IncrCollision(m, it)

\* iterator::operator++
Incr(m, it) ==
  IF isInvalid(it.collision_index)
  THEN LET later == {j \in DOMAIN m.main_table.slot : j > it.bucket_index}
       IN IF later # {}
          THEN iterator(MinOf(later), it.collision_index, MainPtr(MinOf(later)))
          ELSE IF ~isInvalid(MainIndex(m, 0))
               THEN iterator(invalid_marker, 0, CollisionPtr(0))
               ELSE IncrCollision(m, iterator(invalid_marker, 0, CollisionPtr(0)))
  ELSE IncrCollision(m, it)

\* ------------------------------------------------------------ removal
Drop(f, i) ==
  IF DOMAIN f \ {i} = {} THEN <<>> ELSE [j \in DOMAIN f \ {i} |-> f[j]]
Put(f, i, e) == (i :> e) @@ f

\* Variant: the span is left one shorter without walking back to the tail.
ShrinkChain_NoWalk(coll, mask, bucket_idx, chain_len) == chain_len

RECURSIVE ShrinkChain(_, _, _, _)
\* Variant: the walk-back steps over the bucket's own slots.
ShrinkChain_Inverted(coll, mask, bucket_idx, chain_len) ==
  IF chain_len # 0
     /\ (LET i == Masked(bucket_idx + chain_len - 1, mask)
         IN (IF i \in DOMAIN coll THEN coll[i].main_index ELSE invalid_marker)
              = bucket_idx)
  THEN ShrinkChain(coll, mask, bucket_idx, chain_len - 1)
  ELSE chain_len

\* while (chain_len && collision_table[(bucket_idx + chain_len - 1) & mask]
\*                        .main_index != bucket_idx) --chain_len;
ShrinkChain(coll, mask, bucket_idx, chain_len) ==
  IF chain_len # 0
     /\ (LET i == Masked(bucket_idx + chain_len - 1, mask)
         IN (IF i \in DOMAIN coll THEN coll[i].main_index ELSE invalid_marker)
              # bucket_idx)
  THEN ShrinkChain(coll, mask, bucket_idx, chain_len - 1)
  ELSE chain_len

\* Variant: a primary entry without overflow entries is counted out but its
\* slot is not marked EMPTY.
RemoveMain_KeepSlot(m, iter) ==
  LET mask == m.bucket_count - 1
      bucket_idx == iter.bucket_index
      main_entry == m.main_table.slot[bucket_idx]
      chain_len == main_entry.chain_length
  IN IF chain_len # 0
     THEN LET index == Masked(bucket_idx + chain_len - 1, mask)
              collision_entry == m.collision_table.slot[index]
              coll == Drop(m.collision_table.slot, index)
              new_len == ShrinkChain(coll, mask, bucket_idx, chain_len - 1)
          IN [m |-> [m EXCEPT
                       !.element_count = @ - 1,
                       !.collision_table.slot = coll,
                       !.main_table.slot =
                          Put(@, bucket_idx, [key |-> collision_entry.key,
                                              value |-> collision_entry.value,
                                              chain_length |-> new_len])],
              iter |-> iter]
     ELSE [m |-> [m EXCEPT !.element_count = @ - 1],
           iter |-> Incr(m, iter)]

\* Variant: after pulling the tail entry into the primary slot the cursor is
\* advanced past it.
RemoveMain_Advance(m, iter) ==
  LET mask == m.bucket_count - 1
      bucket_idx == iter.bucket_index
      main_entry == m.main_table.slot[bucket_idx]
      chain_len == main_entry.chain_length
  IN IF chain_len # 0
     THEN LET index == Masked(bucket_idx + chain_len - 1, mask)
              collision_entry == m.collision_table.slot[index]
              coll == Drop(m.collision_table.slot, index)
              new_len == ShrinkChain(coll, mask, bucket_idx, chain_len - 1)
          IN [m |-> [m EXCEPT
                       !.element_count = @ - 1,
                       !.collision_table.slot = coll,
                       !.main_table.slot =
                          Put(@, bucket_idx, [key |-> collision_entry.key,
                                              value |-> collision_entry.value,
                                              chain_length |-> new_len])],
              iter |-> Incr(m, iter)]
     ELSE [m |-> [m EXCEPT !.element_count = @ - 1,
                           !.main_table.slot = Drop(@, bucket_idx)],
           iter |-> Incr(m, iter)]

\* iterator remove(iterator iter), the branch for an entry of main_table
RemoveMain(m, iter) ==
  LET mask == m.bucket_count - 1
      bucket_idx == iter.bucket_index
      main_entry == m.main_table.slot[bucket_idx]
      chain_len == main_entry.chain_length
  IN IF chain_len # 0
     THEN LET index == Masked(bucket_idx + chain_len - 1, mask)
              collision_entry == m.collision_table.slot[index]
              coll == Drop(m.collision_table.slot, index)
              new_len == ShrinkChain(coll, mask, bucket_idx, chain_len - 1)
          IN [m |-> [m EXCEPT
                       !.element_count = @ - 1,
                       !.collision_table.slot = coll,
                       !.main_table.slot =
                          Put(@, bucket_idx, [key |-> collision_entry.key,
                                              value |-> collision_entry.value,
                                              chain_length |-> new_len])],
              iter |-> iter]
     ELSE [m |-> [m EXCEPT !.element_count = @ - 1,
                           !.main_table.slot = Drop(@, bucket_idx)],
           iter |-> Incr(m, iter)]

\* Variant: the tail entry is copied into the vacated slot but its own slot is
\* not marked EMPTY.
RemoveCollision_NoClear(m, iter) ==
  LET mask == m.bucket_count - 1
      collision_idx == iter.collision_index
      collision_entry == m.collision_table.slot[collision_idx]
      bucket_idx == IF isInvalid(iter.bucket_index) THEN collision_entry.main_index
                    ELSE iter.bucket_index
      main_entry == m.main_table.slot[bucket_idx]
      chain_len == main_entry.chain_length - 1
      last_index == Masked(bucket_idx + chain_len, mask)
      last_entry == m.collision_table.slot[last_index]
      moved == IF last_index = collision_idx THEN m.collision_table.slot
               ELSE Put(m.collision_table.slot, collision_idx,
                        [key |-> last_entry.key, value |-> last_entry.value,
                         main_index |-> collision_entry.main_index])
      new_len == ShrinkChain(Drop(moved, last_index), mask, bucket_idx, chain_len)
  IN [m |-> [m EXCEPT
               !.element_count = @ - 1,
               !.collision_table.slot = moved,
               !.main_table.slot =
                  Put(@, bucket_idx, [main_entry EXCEPT !.chain_length = new_len])],
      iter |-> IF last_index = collision_idx THEN Incr(m, iter) ELSE iter]

\* Variant: the designated slot is marked EMPTY without moving the tail entry
\* into it.
RemoveCollision_NoMove(m, iter) ==
  LET mask == m.bucket_count - 1
      collision_idx == iter.collision_index
      collision_entry == m.collision_table.slot[collision_idx]
      bucket_idx == IF isInvalid(iter.bucket_index) THEN collision_entry.main_index
                    ELSE iter.bucket_index
      main_entry == m.main_table.slot[bucket_idx]
      chain_len == main_entry.chain_length - 1
      last_index == Masked(bucket_idx + chain_len, mask)
      coll == Drop(m.collision_table.slot, collision_idx)
      new_len == ShrinkChain(coll, mask, bucket_idx, chain_len)
  IN [m |-> [m EXCEPT
               !.element_count = @ - 1,
               !.collision_table.slot = coll,
               !.main_table.slot =
                  Put(@, bucket_idx, [main_entry EXCEPT !.chain_length = new_len])],
      iter |-> IF last_index = collision_idx THEN Incr(m, iter) ELSE iter]

\* iterator remove(iterator iter), the branch for an entry of collision_table
RemoveCollision(m, iter) ==
  LET mask == m.bucket_count - 1
      collision_idx == iter.collision_index
      collision_entry == m.collision_table.slot[collision_idx]
      bucket_idx == IF isInvalid(iter.bucket_index) THEN collision_entry.main_index
                    ELSE iter.bucket_index
      main_entry == m.main_table.slot[bucket_idx]
      chain_len == main_entry.chain_length - 1
      last_index == Masked(bucket_idx + chain_len, mask)
      last_entry == m.collision_table.slot[last_index]
      moved == IF last_index = collision_idx THEN m.collision_table.slot
               ELSE Put(m.collision_table.slot, collision_idx,
                        [key |-> last_entry.key, value |-> last_entry.value,
                         main_index |-> collision_entry.main_index])
      coll == Drop(moved, last_index)
      new_len == ShrinkChain(coll, mask, bucket_idx, chain_len)
  IN [m |-> [m EXCEPT
               !.element_count = @ - 1,
               !.collision_table.slot = coll,
               !.main_table.slot =
                  Put(@, bucket_idx, [main_entry EXCEPT !.chain_length = new_len])],
      iter |-> IF last_index = collision_idx THEN Incr(m, iter) ELSE iter]

\* iterator remove(iterator iter)
remove(m, iter) ==
  IF isInvalid(iter.collision_index) THEN RemoveMain(m, iter)
  ELSE RemoveCollision(m, iter)

\* What a call of a void function hands back: nothing.
Void == <<>>

\* void remove(KeyT &&key)
remove_key(m, key) ==
  LET iter == find(m, key)
  IN [m |-> IF ~IterEq(iter, end) THEN remove(m, iter).m ELSE m,
      ret |-> Void]

RECURSIVE ClearLoop(_, _)
\* while (iter != end_iter) iter = remove(iter);
ClearLoop(m, iter) ==
  IF ~IterEq(iter, end)
  THEN LET r == remove(m, iter) IN ClearLoop(r.m, r.iter)
  ELSE m

\* Variant: clear() also releases the two arrays.
clear_Release(m) ==
  [m EXCEPT !.bucket_count = 0, !.element_count = 0,
            !.main_table = NullTable, !.collision_table = NullTable]

\* void clear()
clear(m) == ClearLoop(m, begin(m))

\* ------------------------------------------------- insertion and growth
RECURSIVE ProbeEmpty(_, _, _)
\* Variant: the probe advances the index without counting the step.
ProbeEmpty_NoCount(m, index, chain_len) ==
  IF ~isInvalid(MainIndex(m, index))
  THEN ProbeEmpty(m, Masked(index + 1, m.bucket_count - 1), chain_len)
  ELSE [index |-> index, chain_len |-> chain_len]

\* while (!isInvalid(collision_table[index].main_index)) {
\*   index = (index + 1) & mask; ++chain_len; }
ProbeEmpty(m, index, chain_len) ==
  IF ~isInvalid(MainIndex(m, index))
  THEN ProbeEmpty(m, Masked(index + 1, m.bucket_count - 1), chain_len + 1)
  ELSE [index |-> index, chain_len |-> chain_len]

\* Variant: the doubling starts from 1 whatever the capacity is.
ReserveLimit_FromOne(bucket_limit, n) ==
  CHOOSE p \in {2 ^ i : i \in 0 .. 20} : p >= n /\ (p = 1 \/ p < 2 * n)

RECURSIVE ReserveLimit(_, _)
\* Variant: the capacity is multiplied by 4 at each step.
ReserveLimit_Quadruple(bucket_limit, n) ==
  IF bucket_limit < n THEN ReserveLimit(bucket_limit * 4, n) ELSE bucket_limit

\* while (bucket_limit < n) bucket_limit *= 2;
ReserveLimit(bucket_limit, n) ==
  IF bucket_limit < n THEN ReserveLimit(bucket_limit * 2, n) ELSE bucket_limit

\* Variant: the early growth waits until the capacity is below twice the count.
FirstExpand_Twice(m) ==
  m.bucket_count < SmallTableLimit /\ m.bucket_count < m.element_count * 2

\* The growth triggers of try_insert for a key whose home slot is occupied.
FirstExpand(m) ==
  m.bucket_count < SmallTableLimit /\ m.bucket_count < m.element_count * 4

\* Variant: a span of ChainLimit makes the table grow until twice
\* LargeTableLimit.
ChainExpand_TwiceLargeTable(m, chain_len) ==
  \/ chain_len >= ChainLimit /\ m.bucket_count < 2 * LargeTableLimit
  \/ chain_len >= m.bucket_count \div 2

ChainExpand(m, chain_len) ==
  \/ chain_len >= ChainLimit /\ m.bucket_count < LargeTableLimit
  \/ chain_len >= m.bucket_count \div 2

RECURSIVE try_insert(_, _, _)
RECURSIVE InsertResize(_, _, _, _)
RECURSIVE InsertPlace(_, _, _, _)
RECURSIVE reserve(_, _)
RECURSIVE resize_table(_, _)
RECURSIVE Reinsert(_, _, _)

\* The old entries live at the indices `todo` of `old`, re-inserted in
\* ascending index order.  An exception of a nested try_insert cannot leave
\* the noexcept resize_table: it ends the process.
Reinsert(m, old, todo) ==
  IF m.thrown THEN [m EXCEPT !.thrown = FALSE, !.aborted = TRUE]
  ELSE IF todo = {} \/ m.aborted THEN m
  ELSE LET i == MinOf(todo)
       IN Reinsert(try_insert(m, old[i].key, old[i].value).m, old, todo \ {i})

\* Variant: collision_table is allocated with the capacity the map had
\* before the call.
resize_table_StaleCount(m, new_bucket_count) ==
  IF new_bucket_count > 0 /\ BitAnd(new_bucket_count, new_bucket_count - 1) # 0
  THEN [m EXCEPT !.aborted = TRUE]
  ELSE LET old_main_table == m.main_table
           old_collision_table == m.collision_table
           fresh == [m EXCEPT !.main_table = allocate(new_bucket_count, m.self),
                              !.collision_table = allocate(m.bucket_count, m.self),
                              !.bucket_count = new_bucket_count,
                              !.element_count = 0]
       IN IF old_main_table.null THEN fresh
          ELSE Reinsert(Reinsert(fresh, old_main_table.slot,
                                 DOMAIN old_main_table.slot),
                        old_collision_table.slot, DOMAIN old_collision_table.slot)

\* Variant: only the entries of the old main_table are re-inserted.
resize_table_MainOnly(m, new_bucket_count) ==
  IF new_bucket_count > 0 /\ BitAnd(new_bucket_count, new_bucket_count - 1) # 0
  THEN [m EXCEPT !.aborted = TRUE]
  ELSE LET old_main_table == m.main_table
           fresh == [m EXCEPT !.main_table = allocate(new_bucket_count, m.self),
                              !.collision_table = allocate(new_bucket_count, m.self),
                              !.bucket_count = new_bucket_count,
                              !.element_count = 0]
       IN IF old_main_table.null THEN fresh
          ELSE Reinsert(fresh, old_main_table.slot, DOMAIN old_main_table.slot)

\* Variant: the capacity is checked after the new arrays were installed.
resize_table_LateCheck(m, new_bucket_count) ==
  LET old_main_table == m.main_table
      old_collision_table == m.collision_table
      fresh == [m EXCEPT !.main_table = allocate(new_bucket_count, m.self),
                         !.collision_table = allocate(new_bucket_count, m.self),
                         !.bucket_count = new_bucket_count,
                         !.element_count = 0]
  IN IF new_bucket_count > 0 /\ BitAnd(new_bucket_count, new_bucket_count - 1) # 0
     THEN [fresh EXCEPT !.aborted = TRUE]
     ELSE IF old_main_table.null THEN fresh
          ELSE Reinsert(Reinsert(fresh, old_main_table.slot,
                                 DOMAIN old_main_table.slot),
                        old_collision_table.slot, DOMAIN old_collision_table.slot)

\* void resize_table(size_t new_bucket_count)
resize_table(m, new_bucket_count) ==
  IF new_bucket_count > 0 /\ BitAnd(new_bucket_count, new_bucket_count - 1) # 0
  THEN [m EXCEPT !.aborted = TRUE]
  ELSE LET old_main_table == m.main_table
           old_collision_table == m.collision_table
           fresh == [m EXCEPT !.main_table = allocate(new_bucket_count, m.self),
                              !.collision_table = allocate(new_bucket_count, m.self),
                              !.bucket_count = new_bucket_count,
                              !.element_count = 0,
                              !.resized = Append(@, [from |-> m.bucket_count,
                                                     to |-> new_bucket_count])]
       IN IF old_main_table.null THEN fresh
          ELSE Reinsert(Reinsert(fresh, old_main_table.slot,
                                 DOMAIN old_main_table.slot),
                        old_collision_table.slot, DOMAIN old_collision_table.slot)

\* void reserve(size_t n)
reserve(m, n) ==
  IF n >= SizeMaxHalf THEN [m EXCEPT !.thrown = TRUE]
  ELSE resize_table(m, ReserveLimit(IF m.bucket_count = 0 THEN 1 ELSE m.bucket_count, n))

\* The code from the label `resize:` on.
InsertResize(m, key, value, new_bucket_count) ==
  LET grown == reserve(m, new_bucket_count)
  IN IF grown.aborted \/ grown.thrown THEN [m |-> grown, first |-> end, second |-> FALSE]
     ELSE InsertPlace(grown, key, value, find(grown, key))

\* Variant: the new span is the old span plus one, whatever the probe
\* passed over.
InsertPlace_SpanPlusOne(m, key, value, iter) ==
  IF isInvalid(iter.collision_index)
  THEN [m |-> [m EXCEPT !.element_count = @ + 1,
                        !.main_table.slot =
                           Put(@, iter.bucket_index,
                               [key |-> key, value |-> value, chain_length |-> 0])],
        first |-> iterator(iter.bucket_index, invalid_marker, MainPtr(iter.bucket_index)),
        second |-> TRUE]
  ELSE IF FirstExpand(m)
       THEN InsertResize(m, key, value, m.bucket_count + 1)
       ELSE LET main_entry == m.main_table.slot[iter.bucket_index]
                probe == ProbeEmpty(m, iter.collision_index, main_entry.chain_length + 1)
            IN IF ChainExpand(m, probe.chain_len)
               THEN InsertResize(m, key, value, m.bucket_count + 1)
               ELSE [m |-> [m EXCEPT
                              !.element_count = @ + 1,
                              !.main_table.slot =
                                 Put(@, iter.bucket_index,
                                     [main_entry EXCEPT !.chain_length = @ + 1]),
                              !.collision_table.slot =
                                 Put(@, probe.index,
                                     [key |-> key, value |-> value,
                                      main_index |-> iter.bucket_index])],
                     first |-> iterator(iter.bucket_index, probe.index,
                                        CollisionPtr(probe.index)),
                     second |-> TRUE]

\* Variant: a colliding key is placed at the first free overflow slot without
\* either of the two growth tests.
InsertPlace_NoGrowth(m, key, value, iter) ==
  IF isInvalid(iter.collision_index)
  THEN [m |-> [m EXCEPT !.element_count = @ + 1,
                        !.main_table.slot =
                           Put(@, iter.bucket_index,
                               [key |-> key, value |-> value, chain_length |-> 0])],
        first |-> iterator(iter.bucket_index, invalid_marker, MainPtr(iter.bucket_index)),
        second |-> TRUE]
  ELSE LET main_entry == m.main_table.slot[iter.bucket_index]
           probe == ProbeEmpty(m, iter.collision_index, main_entry.chain_length + 1)
       IN [m |-> [m EXCEPT
                    !.element_count = @ + 1,
                    !.main_table.slot =
                       Put(@, iter.bucket_index,
                           [main_entry EXCEPT !.chain_length = probe.chain_len]),
                    !.collision_table.slot =
                       Put(@, probe.index,
                           [key |-> key, value |-> value,
                            main_index |-> iter.bucket_index])],
           first |-> iterator(iter.bucket_index, probe.index,
                              CollisionPtr(probe.index)),
           second |-> TRUE]

\* The code after the `if (bucket_count < new_bucket_count)` block.
InsertPlace(m, key, value, iter) ==
  IF isInvalid(iter.collision_index)
  THEN [m |-> [m EXCEPT !.element_count = @ + 1,
                        !.main_table.slot =
                           Put(@, iter.bucket_index,
                               [key |-> key, value |-> value, chain_length |-> 0])],
        first |-> iterator(iter.bucket_index, invalid_marker, MainPtr(iter.bucket_index)),
        second |-> TRUE]
  ELSE IF FirstExpand(m)
       THEN InsertResize(m, key, value, m.bucket_count + 1)
       ELSE LET main_entry == m.main_table.slot[iter.bucket_index]
                probe == ProbeEmpty(m, iter.collision_index, main_entry.chain_length + 1)
            IN IF ChainExpand(m, probe.chain_len)
               THEN InsertResize(m, key, value, m.bucket_count + 1)
               ELSE [m |-> [m EXCEPT
                              !.element_count = @ + 1,
                              !.main_table.slot =
                                 Put(@, iter.bucket_index,
                                     [main_entry EXCEPT !.chain_length = probe.chain_len]),
                              !.collision_table.slot =
                                 Put(@, probe.index,
                                     [key |-> key, value |-> value,
                                      main_index |-> iter.bucket_index])],
                     first |-> iterator(iter.bucket_index, probe.index,
                                        CollisionPtr(probe.index)),
                     second |-> TRUE]

\* Variant: an insert of a present key stores the new value over the old one.
try_insert_Overwrite(m, key, value) ==
  LET m1 == IF m.main_table.null THEN reserve(m, BaselineCapacity) ELSE m
      iter == find(m1, key)
      ptr == iter.value_ptr
  IN IF ptr # nullptr
     THEN [m |-> IF ptr.tab = "main"
                 THEN [m1 EXCEPT !.main_table.slot[ptr.idx].value = value]
                 ELSE [m1 EXCEPT !.collision_table.slot[ptr.idx].value = value],
           first |-> iter, second |-> FALSE]
     ELSE IF m1.bucket_count < m1.element_count + 1
          THEN InsertResize(m1, key, value, m1.element_count + 1)
          ELSE InsertPlace(m1, key, value, iter)

\* Variant: the count is not compared with the capacity before the entry is
\* placed.
try_insert_NoCountCheck(m, key, value) ==
  LET m1 == IF m.main_table.null THEN reserve(m, BaselineCapacity) ELSE m
      iter == find(m1, key)
  IN IF iter.value_ptr # nullptr THEN [m |-> m1, first |-> iter, second |-> FALSE]
     ELSE InsertPlace(m1, key, value, iter)

\* Variant: the first insert reserves room for the one entry it brings.
try_insert_NoBaseline(m, key, value) ==
  LET m1 == IF m.main_table.null THEN reserve(m, 1) ELSE m
      iter == find(m1, key)
  IN IF iter.value_ptr # nullptr THEN [m |-> m1, first |-> iter, second |-> FALSE]
     ELSE IF m1.bucket_count < m1.element_count + 1
          THEN InsertResize(m1, key, value, m1.element_count + 1)
          ELSE InsertPlace(m1, key, value, iter)

\* Variant: the table is grown already when the new entry would fill it.
try_insert_EagerGrow(m, key, value) ==
  LET m1 == IF m.main_table.null THEN reserve(m, BaselineCapacity) ELSE m
      iter == find(m1, key)
  IN IF iter.value_ptr # nullptr THEN [m |-> m1, first |-> iter, second |-> FALSE]
     ELSE IF m1.bucket_count <= m1.element_count + 1
          THEN InsertResize(m1, key, value, m1.element_count + 2)
          ELSE InsertPlace(m1, key, value, iter)

\* std::pair<iterator, bool> try_insert(KeyT &&key, Args &&...args)
try_insert(m, key, value) ==
  LET m1 == IF m.main_table.null THEN reserve(m, BaselineCapacity) ELSE m
      iter == find(m1, key)
  IN IF iter.value_ptr # nullptr THEN [m |-> m1, first |-> iter, second |-> FALSE]
     ELSE IF m1.bucket_count < m1.element_count + 1
          THEN InsertResize(m1, key, value, m1.element_count + 1)
          ELSE InsertPlace(m1, key, value, iter)

\* ------------------------------------------ a failing memory provider
\* allocate<T>(n) leaves by an exception (std::bad_alloc from
\* A().allocate(n)) when the memory provider cannot satisfy the request.
\* `failing` is the call of allocate within resize_table that fails: 1 for
\* main_table, 2 for collision_table.
AllocateCalls == {1, 2}

\* void resize_table(size_t new_bucket_count) noexcept, with a failing
\* allocate: the exception cannot leave the noexcept function, which is
\* std::terminate(); `aborted` marks the process as ended, the other fields
\* are the members at that moment.
resize_table_failing(m, new_bucket_count, failing) ==
  IF new_bucket_count > 0 /\ BitAnd(new_bucket_count, new_bucket_count - 1) # 0
  THEN [m EXCEPT !.aborted = TRUE]
  ELSE IF failing = 1
       THEN [m EXCEPT !.aborted = TRUE]
       ELSE [m EXCEPT !.main_table = allocate(new_bucket_count, m.self),
                      !.aborted = TRUE]

\* void reserve(size_t n), with a failing allocate
reserve_failing(m, n, failing) ==
  IF n >= SizeMaxHalf THEN [m EXCEPT !.thrown = TRUE]
  ELSE resize_table_failing(m, ReserveLimit(IF m.bucket_count = 0 THEN 1 ELSE m.bucket_count, n),
                       failing)

\* try_insert with a failing allocate in the first resize_table it reaches,
\* if it reaches one.
try_insert_failing(m, key, value, failing) ==
  IF m.main_table.null THEN reserve_failing(m, BaselineCapacity, failing)
  ELSE LET iter == find(m, key)
       IN IF iter.value_ptr # nullptr THEN m
          ELSE IF m.bucket_count < m.element_count + 1
               THEN reserve_failing(m, m.element_count + 1, failing)
               ELSE IF isInvalid(iter.collision_index) THEN InsertPlace(m, key, value, iter).m
               ELSE IF FirstExpand(m) THEN reserve_failing(m, m.bucket_count + 1, failing)
               ELSE LET main_entry == m.main_table.slot[iter.bucket_index]
                        probe == ProbeEmpty(m, iter.collision_index,
                                            main_entry.chain_length + 1)
                    IN IF ChainExpand(m, probe.chain_len)
                       THEN reserve_failing(m, m.bucket_count + 1, failing)
                       ELSE InsertPlace(m, key, value, iter).m

\* How a call that left the object as m ends for its caller: the process is
\* gone, the call leaves by an exception the caller can catch, or it returns.
Ends(m) ==
  IF m.aborted THEN [how |-> "terminate"]
  ELSE IF m.thrown
       THEN [how |-> "throw", what |-> "range_error", m |-> [m EXCEPT !.thrown = FALSE]]
       ELSE [how |-> "return", m |-> m]

\* Variant: operator[] value-initializes the value of a key that is present.
subscript_Reset(m, index) ==
  LET r == try_insert_Overwrite(m, index, DefaultValue)
  IN [m |-> r.m, ref |-> r.first.value_ptr]

\* ValueType &operator[](KeyT &&index): try_insert(index) with an empty
\* argument pack, so a new value is ValueType(); `ref` is the slot of the
\* returned reference.
subscript(m, index) ==
  LET r == try_insert(m, index, DefaultValue)
  IN [m |-> r.m, ref |-> r.first.value_ptr]

\* iterator::operator*: the pair (first, second) a cursor at the slot `ptr`
\* yields.  second is *value_ptr; first is the KeyType read sizeof(KeyType)
\* bytes before value_ptr, which is the entry's key only when the value
\* member directly follows the key (value_offset = sizeof(KeyType)).  With
\* padding between the two the bytes read are never written by the map:
\* `junk` gives the KeyType they happen to hold at each slot.
Star(m, ptr, value_offset, junk) ==
  LET entry == IF ptr.tab = "main" THEN m.main_table.slot[ptr.idx]
               ELSE m.collision_table.slot[ptr.idx]
  IN [first |-> IF value_offset = SizeofKeyType THEN entry.key ELSE junk[ptr],
      second |-> entry.value]

\* for (auto &entry : other) insert(entry);
RECURSIVE CopyLoop(_, _, _, _, _)
CopyLoop(m, other, iter, value_offset, junk) ==
  IF IterEq(iter, end) THEN m
  ELSE LET entry == Star(other, iter.value_ptr, value_offset, junk)
       IN CopyLoop(try_insert(m, entry.first, entry.second).m, other,
                   Incr(other, iter), value_offset, junk)

\* HashMap &operator=(const HashMap &other), for another map `other`, in an
\* instantiation that places the value member at value_offset
assign_at(m, other, value_offset, junk) ==
  CopyLoop(clear(m), other, begin(other), value_offset, junk)

\* HashMap<int, int>::operator=(const HashMap &other), for another map
assign(m, other) == assign_at(m, other, OffsetOfIntValue, <<>>)

\* map = map: `other` is *this, so the loop runs over the cleared map
assign_self(m, value_offset, junk) ==
  LET cleared == clear(m)
  IN CopyLoop(cleared, cleared, begin(cleared), value_offset, junk)

\* ------------------------------------------------------- observations
\* *value_ptr: the entry a non-null slot reference designates
Deref(m, ptr) ==
  IF ptr.tab = "main" THEN m.main_table.slot[ptr.idx]
  ELSE m.collision_table.slot[ptr.idx]

\* What find(key) lets the caller read: <<>> when the cursor equals end(),
\* else <<key, value>> of the entry it designates.
Lookup(m, key) ==
  LET iter == find(m, key)
  IN IF IterEq(iter, end) THEN <<>>
     ELSE <<Deref(m, iter.value_ptr).key, Deref(m, iter.value_ptr).value>>

\* The live slots of the two arrays and the keys they hold.
LiveSlots(m) ==
  {MainPtr(i) : i \in DOMAIN m.main_table.slot}
    \cup {CollisionPtr(i) : i \in DOMAIN m.collision_table.slot}
StoredKeys(m) == {Deref(m, p).key : p \in LiveSlots(m)}
StoredPairs(m) == {<<Deref(m, p).key, Deref(m, p).value>> : p \in LiveSlots(m)}

\* --------------------------------------------------- a second object
\* HashMap(const HashMap &other) { *this = other; }, constructing a second
\* object
copy_construct(other, value_offset, junk) ==
  assign_at(Other, other, value_offset, junk)

\* HashMap moved(std::move(other)): the class declares no move constructor,
\* so the argument binds to HashMap(const HashMap &).  The result is the new
\* object and the argument as the call leaves it.
move_construct(other, value_offset, junk) ==
  [target |-> copy_construct(other, value_offset, junk), source |-> other]

\* m = std::move(other): the class declares no move assignment, so the
\* argument binds to operator=(const HashMap &).
move_assign(m, other, value_offset, junk) ==
  [target |-> assign_at(m, other, value_offset, junk), source |-> other]

\* The KeyType values the bytes before value_ptr can hold at the live slots
\* of m: nothing to choose when they are the key itself.
PaddingReads(m, value_offset) ==
  IF value_offset = SizeofKeyType THEN {<<>>} ELSE [LiveSlots(m) -> Keys]

\* The object m as its own calls find it after another object went from
\* `before` to `after`: an array m shares with that object holds what the
\* other object left in it.
Seen(m, before, after) ==
  [m EXCEPT
     !.main_table =
        IF ~@.null /\ ~before.main_table.null /\ @.base = before.main_table.base
        THEN after.main_table ELSE @,
     !.collision_table =
        IF ~@.null /\ ~before.collision_table.null
           /\ @.base = before.collision_table.base
        THEN after.collision_table ELSE @]

\* A second map holding the keys S (with the first value), built by inserts
\* in ascending key order.
RECURSIVE InsertAll(_, _)
InsertAll(m, S) ==
  IF S = {} THEN m
  ELSE InsertAll(try_insert(m, MinOf(S), MinOf(Values)).m, S \ {MinOf(S)})
SecondMaps == {InsertAll(Other, S) : S \in {T \in SUBSET Keys : Cardinality(T) <= MaxSecond}}

\* ---------------------------------------------------- serialization.h
\* DataWriter::write of a trivial value: the sizeof(value) bytes of its
\* object representation, copied by memcpy (least significant byte first).
RECURSIVE write(_, _)
write(value, length) ==
  IF length = 0 THEN <<>> ELSE <<value % 256>> \o write(value \div 256, length - 1)

\* DataReader::read of a trivial value: memcpy of the leading bytes into it.
RECURSIVE read(_)
read(buffer) ==
  IF buffer = <<>> THEN 0 ELSE buffer[1] + 256 * read(Tail(buffer))

\* for (auto &entry : map) context(entry.first, entry.second);
RECURSIVE WritePairs(_, _, _, _)
WritePairs(map, iter, value_offset, junk) ==
  IF IterEq(iter, end) THEN <<>>
  ELSE LET entry == Star(map, iter.value_ptr, value_offset, junk)
       IN write(entry.first, SizeofKeyType) \o write(entry.second, SizeofMappedType)
            \o WritePairs(map, Incr(map, iter), value_offset, junk)

\* serialize_map(Context &, const MapType &map): the bytes written
serialize_map_write(map, value_offset, junk) ==
  write(map.element_count, SizeofSizeT) \o WritePairs(map, begin(map), value_offset, junk)

\* for (; count; --count) { key = read<key_type>();
\*                          map.emplace(key, read<mapped_type>()); }
RECURSIVE ReadPairs(_, _, _)
ReadPairs(map, buffer, count) ==
  IF count = 0 \/ map.aborted THEN map
  ELSE LET key == read(SubSeq(buffer, 1, SizeofKeyType))
           value == read(SubSeq(buffer, SizeofKeyType + 1, SizeofKeyType + SizeofMappedType))
       IN ReadPairs(try_insert(map, key, value).m,
                    SubSeq(buffer, SizeofKeyType + SizeofMappedType + 1, Len(buffer)),
                    count - 1)

\* The member types struct HashMap declares, and those the body of
\* serialize_map(Context &, MapType &) names.
MemberTypes == {"iterator"}
NamedMemberTypes == {"key_type", "mapped_type"}

\* serialize_map(Context &, MapType &map) instantiated for a MapType that
\* declares member_types: ill-formed (the program is not built) when one
\* of MapType::key_type and MapType::mapped_type does not exist.
serialize_map_read(buffer, map, member_types) ==
  IF ~(NamedMemberTypes \subseteq member_types) THEN [how |-> "ill_formed"]
  ELSE LET cleared == clear(map)
           count == read(SubSeq(buffer, 1, SizeofSizeT))
       IN Ends(ReadPairs(cleared, SubSeq(buffer, SizeofSizeT + 1, Len(buffer)), count))

\* ------------------------------------------------------ state machine
\* `last` names the last public call and the path it took through the code.
Call(op, case) == [op |-> op, case |-> case]

Install(m) ==
  /\ ~m.aborted
  /\ ~m.thrown
  /\ bucket_count' = m.bucket_count
  /\ element_count' = m.element_count
  /\ main_table' = m.main_table
  /\ collision_table' = m.collision_table

\* The path of try_insert: the key was there (with the same or another
\* value), the table grew more than one doubling, the entry went to an
\* overflow slot or to its primary slot.
InsertCase(m, r, value) ==
  IF ~r.second
  THEN (IF Deref(r.m, r.first.value_ptr).value = value THEN "duplicate"
        ELSE "duplicate_other_value")
  ELSE IF ~m.main_table.null /\ r.m.bucket_count > 2 * m.bucket_count THEN "grown_twice"
  ELSE IF r.first.value_ptr.tab = "collision" THEN "chain"
  ELSE "main"

\* The path of reserve(n): a rehash at the same capacity, a growth to the
\* capacity asked for, or a further growth while re-inserting.
ReserveCase(m, n, r) ==
  IF r.bucket_count = m.bucket_count THEN "same"
  ELSE IF r.bucket_count = ReserveLimit(IF m.bucket_count = 0 THEN 1 ELSE m.bucket_count, n)
       THEN "grown"
       ELSE "grown_twice"

\* The path of remove(key): no such key, the tail entry pulled into the
\* primary slot, the tail entry moved into the vacated overflow slot, or a
\* slot that is simply cleared.
RemoveCase(m, key) ==
  LET iter == find(m, key)
  IN IF IterEq(iter, end) THEN "miss"
     ELSE IF isInvalid(iter.collision_index)
          THEN (IF ChainLength(m, iter.bucket_index) = 0 THEN "cleared" ELSE "pull_tail")
          ELSE (IF Masked(iter.bucket_index + ChainLength(m, iter.bucket_index) - 1,
                          m.bucket_count - 1) = iter.collision_index
                THEN "cleared" ELSE "relocate")

\* The path of find(key).
FindCase(m, key) ==
  LET iter == find(m, key)
      b == iter.bucket_index
  IN IF m.main_table.null THEN "miss_null"
     ELSE IF iter.value_ptr # nullptr THEN "hit"
          ELSE IF isInvalid(ChainLength(m, b)) THEN "miss_empty"
               ELSE IF ChainLength(m, b) = 0 THEN "miss_span0" ELSE "miss_scan"

\* The reference dictionary after each call.
\* shadow.reserved: the n and the resulting capacity of a reserve(n) made on
\* the empty map and followed, so far, only by inserts of at most n new
\* keys with pairwise distinct home buckets; NoReserve otherwise.
NoReserve == [n |-> 0, capacity |-> 0]
HomeBucket(key, capacity) == Masked(HashFunction(key), capacity - 1)
WithinReserve(key) ==
  /\ shadow.reserved # NoReserve
  /\ key \notin DOMAIN shadow.map
  /\ Cardinality(DOMAIN shadow.map) < shadow.reserved.n
  /\ \A k \in DOMAIN shadow.map :
       HomeBucket(k, shadow.reserved.capacity) # HomeBucket(key, shadow.reserved.capacity)

ShadowInsert(key, value) ==
  [map |-> IF key \in DOMAIN shadow.map THEN shadow.map
           ELSE Put(shadow.map, key, value),
   inserts_only |-> shadow.inserts_only /\ key \notin DOMAIN shadow.map,
   reserved |-> IF WithinReserve(key) THEN shadow.reserved ELSE NoReserve]
ShadowRemove(key) ==
  [map |-> Drop(shadow.map, key), inserts_only |-> FALSE, reserved |-> NoReserve]
ShadowKeep == [shadow EXCEPT !.inserts_only = FALSE, !.reserved = NoReserve]

Init ==
  /\ bucket_count = 0
  /\ element_count = 0
  /\ main_table = NullTable
  /\ collision_table = NullTable
  /\ hash_kind \in HashKinds
  /\ last = Call("construct", "")
  /\ shadow = [map |-> <<>>, inserts_only |-> TRUE, reserved |-> NoReserve]
  /\ MutexInit

\* What clear() finds: no arrays, arrays without entries, entries in primary
\* slots only, or entries in overflow slots too.
ClearCase(m) ==
  IF m.main_table.null THEN "null"
  ELSE IF m.element_count = 0 THEN "empty"
  ELSE IF DOMAIN m.collision_table.slot = {} THEN "primary"
  ELSE "overflow"

\* emplace(key, value) / insert(std::pair(key, value))
Insert(key, value) ==
  LET r == try_insert(This, key, value)
  IN /\ last' = Call("insert", InsertCase(This, r, value))
     /\ Install(r.m)
     /\ shadow' = ShadowInsert(key, value)
     /\ UNCHANGED <<hash_kind, mutex_vars>>

\* operator[](key)
Index(key) ==
  LET r == try_insert(This, key, DefaultValue)
  IN /\ last' = Call("index", InsertCase(This, r, DefaultValue))
     /\ Install(r.m)
     /\ shadow' = [ShadowInsert(key, DefaultValue) EXCEPT !.inserts_only = FALSE]
     /\ UNCHANGED <<hash_kind, mutex_vars>>

\* remove(key)
Remove(key) ==
  /\ last' = Call("remove", RemoveCase(This, key))
  /\ Install(remove_key(This, key).m)
  /\ shadow' = ShadowRemove(key)
  /\ UNCHANGED <<hash_kind, mutex_vars>>

\* find(key)
Find(key) ==
  /\ last' = Call("find", FindCase(This, key))
  /\ shadow' = ShadowKeep
  /\ UNCHANGED <<bucket_count, element_count, main_table, collision_table,
               hash_kind, mutex_vars>>

\* reserve(n)
Reserve(n) ==
  LET m == reserve(This, n)
  IN /\ last' = Call("reserve", ReserveCase(This, n, m))
     /\ Install(m)
     /\ shadow' = [shadow EXCEPT
                     !.inserts_only = @ /\ DOMAIN shadow.map = {},
                     !.reserved = IF element_count = 0
                                  THEN [n |-> n, capacity |-> m.bucket_count]
                                  ELSE NoReserve]
     /\ UNCHANGED <<hash_kind, mutex_vars>>

\* clear()
Clear ==
  /\ last' = Call("clear", ClearCase(This))
  /\ Install(clear(This))
  /\ shadow' = [map |-> <<>>, inserts_only |-> FALSE, reserved |-> NoReserve]
  /\ UNCHANGED <<hash_kind, mutex_vars>>

\* HashMap copy(*this): the run goes on with the copy
CopyConstruct ==
  /\ last' = Call("copy", "")
  /\ Install(assign(HashMapInit, This))
  /\ shadow' = ShadowKeep
  /\ UNCHANGED <<hash_kind, mutex_vars>>

Next ==
  \/ \E key \in Keys, value \in Values : Insert(key, value)
  \/ \E key \in Keys : Index(key)
  \/ \E key \in Keys : Remove(key)
  \/ \E key \in Keys : Find(key)
  \/ \E n \in ReserveArgs : Reserve(n)
  \/ Clear
  \/ CopyConstruct

Spec == Init /\ [][Next]_vars

\* ------------------------------- the resize primitive called directly
\* resize_table is a public member.  A call that reaches std::abort() ends
\* the process: the state it leaves has the members as they were at that
\* moment and no successor.
ResizeArgs == 1 .. MaxResize

ResizeTable(n) ==
  LET m == resize_table(This, n)
  IN /\ last' = Call("resize_table", IF m.aborted THEN "abort" ELSE "done")
     /\ bucket_count' = m.bucket_count
     /\ element_count' = m.element_count
     /\ main_table' = m.main_table
     /\ collision_table' = m.collision_table
     /\ shadow' = ShadowKeep
     /\ UNCHANGED <<hash_kind, mutex_vars>>

NextR ==
  /\ last.case # "abort"
  /\ \/ Next
     \/ \E n \in ResizeArgs : ResizeTable(n)

SpecR == Init /\ [][NextR]_vars

\* ------------------------------- Scenario D: every key in bucket 0
\* The map is instantiated with the degenerate hash.  Distinct keys are
\* inserted one after the other, each with a value of its own; once
\* ScenarioDKeys keys are in, keys are removed in any order.  (With a
\* constant hash and equality as the only other use of a key, the order in
\* which distinct keys are inserted only renames them.)
DegenerateKeys == 0 .. (ScenarioDKeys - 1)
OwnValue(key) == key + 1

InitD ==
  /\ bucket_count = 0
  /\ element_count = 0
  /\ main_table = NullTable
  /\ collision_table = NullTable
  /\ hash_kind = "zero"
  /\ last = Call("construct", "")
  /\ shadow = [map |-> <<>>, inserts_only |-> TRUE, reserved |-> NoReserve]
  /\ MutexInit

InsertNextKey ==
  /\ shadow.inserts_only
  /\ element_count < ScenarioDKeys
  /\ Insert(element_count, OwnValue(element_count))

RemoveAnyKey(key) ==
  /\ element_count = ScenarioDKeys \/ ~shadow.inserts_only
  /\ key \in DOMAIN shadow.map
  /\ Remove(key)

NextD ==
  \/ InsertNextKey
  \/ \E key \in DegenerateKeys : RemoveAnyKey(key)

SpecD == InitD /\ [][NextD]_vars

\* ------------------------------------------- SpinMutex under contention
\* Each thread runs the loop of the access test: take the mutex, read the
\* counter, write the read value plus one, release; Iterations times.  A
\* thread takes the mutex with lock() or with try_lock(), and a thread that
\* holds it may call try_lock() again, as the try_lock test does.  Every
\* action is one atomic operation on is_locked or on shared_counter.
Held == {t \in Threads : holds[t]}

InitM ==
  /\ bucket_count = 0
  /\ element_count = 0
  /\ main_table = NullTable
  /\ collision_table = NullTable
  /\ hash_kind = "identity"
  /\ last = Call("construct", "")
  /\ shadow = [map |-> <<>>, inserts_only |-> TRUE, reserved |-> NoReserve]
  /\ MutexInit

\* for (int j = 0; j < iterations; ++j): the next acquisition is called
Acquire(t) ==
  /\ pc[t] = "start"
  /\ iteration[t] < Iterations
  /\ \E entry \in {"lock_load", "try_load"} : pc' = [pc EXCEPT ![t] = entry]
  /\ UNCHANGED <<map_vars, is_locked, shared_counter, old_val, iteration, holds, tried>>

\* lock(): while (is_locked.load(relaxed)) _mm_pause();
LockLoad(t) ==
  /\ pc[t] = "lock_load"
  /\ pc' = [pc EXCEPT ![t] = IF is_locked THEN "lock_load" ELSE "lock_exchange"]
  /\ UNCHANGED <<map_vars, is_locked, shared_counter, old_val, iteration, holds, tried>>

\* lock() with a plain store in place of the exchange
LockExchange_Store(t) ==
  /\ pc[t] = "lock_exchange"
  /\ is_locked' = TRUE
  /\ pc' = [pc EXCEPT ![t] = "critical_load"]
  /\ holds' = [holds EXCEPT ![t] = TRUE]
  /\ UNCHANGED <<map_vars, shared_counter, old_val, iteration, tried>>

\* lock(): ... while (is_locked.exchange(true, acq_rel));
LockExchange(t) ==
  /\ pc[t] = "lock_exchange"
  /\ is_locked' = TRUE
  /\ pc' = [pc EXCEPT ![t] = IF is_locked THEN "lock_load" ELSE "critical_load"]
  /\ holds' = [holds EXCEPT ![t] = ~is_locked]
  /\ UNCHANGED <<map_vars, shared_counter, old_val, iteration, tried>>

\* where a try_lock() that returned false leaves its caller
Resume(t) == IF holds[t] THEN "critical_load" ELSE "start"

\* try_lock(): if (is_locked.load(relaxed)) return false;
TryLoad(t) ==
  /\ pc[t] = "try_load"
  /\ IF is_locked
     THEN /\ pc' = [pc EXCEPT ![t] = Resume(t)]
          /\ tried' = [tried EXCEPT ![t] = [called |-> TRUE, result |-> FALSE,
                                            held |-> Held # {}]]
     ELSE /\ pc' = [pc EXCEPT ![t] = "try_exchange"]
          /\ UNCHANGED tried
  /\ UNCHANGED <<map_vars, is_locked, shared_counter, old_val, iteration, holds>>

\* try_lock(): if (!is_locked.exchange(true, acq_rel)) return true;
\*             else return false;
TryExchange(t) ==
  /\ pc[t] = "try_exchange"
  /\ is_locked' = TRUE
  /\ tried' = [tried EXCEPT ![t] = [called |-> TRUE, result |-> ~is_locked,
                                    held |-> Held # {}]]
  /\ pc' = [pc EXCEPT ![t] = IF is_locked THEN Resume(t) ELSE "critical_load"]
  /\ holds' = [holds EXCEPT ![t] = @ \/ ~is_locked]
  /\ UNCHANGED <<map_vars, shared_counter, old_val, iteration>>

\* EXPECT_FALSE(mutex.try_lock()): the holder calls try_lock() again
TryHeld(t) ==
  /\ pc[t] = "critical_load"
  /\ pc' = [pc EXCEPT ![t] = "try_load"]
  /\ UNCHANGED <<map_vars, is_locked, shared_counter, old_val, iteration, holds, tried>>

\* int old_val = shared_counter.load();
CriticalLoad(t) ==
  /\ pc[t] = "critical_load"
  /\ old_val' = [old_val EXCEPT ![t] = shared_counter]
  /\ pc' = [pc EXCEPT ![t] = "critical_store"]
  /\ UNCHANGED <<map_vars, is_locked, shared_counter, iteration, holds, tried>>

\* shared_counter.store(old_val + 1);
CriticalStore(t) ==
  /\ pc[t] = "critical_store"
  /\ shared_counter' = old_val[t] + 1
  /\ pc' = [pc EXCEPT ![t] = "unlock"]
  /\ UNCHANGED <<map_vars, is_locked, old_val, iteration, holds, tried>>

\* unlock(): is_locked.store(false, release); then ++j
Unlock(t) ==
  /\ pc[t] = "unlock"
  /\ is_locked' = FALSE
  /\ holds' = [holds EXCEPT ![t] = FALSE]
  /\ iteration' = [iteration EXCEPT ![t] = @ + 1]
  /\ pc' = [pc EXCEPT ![t] = IF iteration[t] + 1 < Iterations THEN "start" ELSE "done"]
  /\ UNCHANGED <<map_vars, shared_counter, old_val, tried>>

NextM ==
  \E t \in Threads :
    \/ Acquire(t)
    \/ LockLoad(t)
    \/ LockExchange(t)
    \/ TryLoad(t)
    \/ TryExchange(t)
    \/ TryHeld(t)
    \/ CriticalLoad(t)
    \/ CriticalStore(t)
    \/ Unlock(t)

SpecM == InitM /\ [][NextM]_vars

\* -------------------------------------------------------------- claims
IsPowerOfTwo(n) == n > 0 /\ BitAnd(n, n - 1) = 0

\* The overflow indices b, b+1, ..., b+s-1 (mod capacity) of bucket b's span.
Window(m, b) ==
  {Masked(b + d, m.bucket_count - 1) : d \in 0 .. (ChainLength(m, b) - 1)}
Owned(m, b) == {i \in DOMAIN m.collision_table.slot : MainIndex(m, i) = b}

\* C1: after inserts of pairwise distinct keys into an initially empty map,
\* find(k) designates the pair inserted with k for every inserted k, and
\* size() is the number of keys inserted.
C1_RoundTrip ==
  shadow.inserts_only =>
    /\ element_count = Cardinality(DOMAIN shadow.map)
    /\ \A key \in DOMAIN shadow.map : Lookup(This, key) = <<key, shadow.map[key]>>

\* C1 witness: an insert-only history in which the last insert grew the table
\* more than one step, leaving at least three keys, one in an overflow slot.
C1_Witness ==
  /\ shadow.inserts_only
  /\ last = Call("insert", "grown_twice")
  /\ element_count >= 3
  /\ DOMAIN collision_table.slot # {}

C4_SpanCoversOwned ==
  \A b \in DOMAIN main_table.slot :
    /\ Owned(This, b) \subseteq Window(This, b)
    /\ {i \in Window(This, b) : MainIndex(This, i) = b} = Owned(This, b)

\* C4 witness: a span that wraps past the end of the array and passes over a
\* slot of another bucket.
C4_Witness ==
  \E b \in DOMAIN main_table.slot :
    /\ b + ChainLength(This, b) > bucket_count
    /\ \E i \in Window(This, b) : ~isInvalid(MainIndex(This, i)) /\ MainIndex(This, i) # b
    /\ Cardinality(Owned(This, b)) >= 2

C6_CapacityPowerOfTwo ==
  /\ bucket_count = 0 \/ IsPowerOfTwo(bucket_count)
  /\ main_table.size = bucket_count
  /\ collision_table.size = bucket_count

\* C6 witness: a capacity reached by growth from a reserved one.
C6_Witness == bucket_count = 8 /\ element_count >= 2

Returned(x) == <<x>>

\* C9: remove(k) of an absent key reports 0 removed elements and changes
\* nothing.
C9_RemoveAbsentReportsZero ==
  \A key \in Keys \ StoredKeys(This) :
    LET r == remove_key(This, key)
    IN r.ret = Returned(0) /\ r.m = This

\* C9, the part the code keeps: remove(k) of an absent key changes nothing.
C9_RemoveAbsentKeeps ==
  \A key \in Keys \ StoredKeys(This) : remove_key(This, key).m = This

\* C10: find(k) of an absent key returns a cursor equal to end() on one of
\* the four miss paths, and a find step leaves the table as it was.
C10_FindAbsent ==
  [][/\ \A key \in Keys \ StoredKeys(This) :
          /\ IterEq(find(This, key), end)
          /\ FindCase(This, key) \in {"miss_null", "miss_empty", "miss_span0", "miss_scan"}
     /\ last'.op = "find" => This' = This]_vars

\* C10 witness: a find that scanned a whole span without a match.
C10_Witness == last = Call("find", "miss_scan")

\* The cursors a walk from `iter` passes through before it equals end().
RECURSIVE Walk(_, _)
Walk(m, iter) ==
  IF IterEq(iter, end) THEN <<>> ELSE <<iter>> \o Walk(m, Incr(m, iter))

\* The elements of a set of indices in ascending order.
RECURSIVE Ascending(_)
Ascending(S) ==
  IF S = {} THEN <<>> ELSE <<MinOf(S)>> \o Ascending(S \ {MinOf(S)})

\* The live slots in traversal order: primary slots by ascending index, then
\* overflow slots by ascending index.
TraversalOrder(m) ==
  LET mains == Ascending(DOMAIN m.main_table.slot)
      colls == Ascending(DOMAIN m.collision_table.slot)
  IN [i \in 1 .. Len(mains) |-> MainPtr(mains[i])]
       \o [i \in 1 .. Len(colls) |-> CollisionPtr(colls[i])]

\* C11: stepping a cursor from begin() with ++ until it equals end() visits
\* every live slot exactly once, primary slots in ascending index and then
\* overflow slots in ascending index, in size() steps; begin() == end() for
\* an empty map.
C11_TraversalOrder ==
  LET walk == Walk(This, begin(This))
  IN /\ [i \in 1 .. Len(walk) |-> walk[i].value_ptr] = TraversalOrder(This)
     /\ Len(walk) = element_count
     /\ element_count = 0 => IterEq(begin(This), end)

\* C11 witness: a table whose traversal passes from primary slots to overflow
\* slot 0 and on over a gap to a later overflow slot.
C11_Witness ==
  /\ Cardinality(DOMAIN main_table.slot) >= 2
  /\ 0 \in DOMAIN collision_table.slot
  /\ \E i \in DOMAIN collision_table.slot : i > 1 /\ (i - 1) \notin DOMAIN collision_table.slot

\* The place of a slot in the traversal order, and the first live slot of m
\* at or after a place (nullptr, the value_ptr of end(), if there is none).
Place(m, ptr) == IF ptr.tab = "main" THEN ptr.idx ELSE m.bucket_count + ptr.idx
NextLive(m, ptr) ==
  LET later == {q \in LiveSlots(m) : Place(m, q) >= Place(m, ptr)}
  IN IF later = {} THEN nullptr
     ELSE CHOOSE q \in later : \A o \in later : Place(m, q) <= Place(m, o)

\* The cursors a caller can hold at live entries: those find returns and
\* those a walk passes through.
Cursors(m) ==
  {find(m, key) : key \in StoredKeys(m)}
    \cup {Walk(m, begin(m))[i] : i \in 1 .. m.element_count}

\* C12: remove(cursor) at a live entry returns a cursor at the first live
\* slot at or after the removed slot's place in the traversal order of the
\* table as it is after the removal, or end() if there is none.
C12_RemoveReturnsNext ==
  \A iter \in Cursors(This) :
    LET r == remove(This, iter)
    IN /\ r.iter.value_ptr = NextLive(r.m, iter.value_ptr)
       /\ IterEq(r.iter, end) \/ r.iter.value_ptr \in LiveSlots(r.m)

\* C12 witness: after the removal of a primary entry that had overflow
\* entries, so that the returned cursor stayed on the refilled slot.
C12_Witness == last = Call("remove", "pull_tail") /\ element_count >= 2

\* C13: clear() leaves size() == 0, an empty iteration and every key
\* not-found, with the capacity and both arrays kept (not released, not
\* reallocated); on a never-allocated map it changes nothing.
C13_ClearKeepsCapacity ==
  LET m == clear(This)
  IN /\ m.element_count = 0
     /\ IterEq(begin(m), end)
     /\ \A key \in Keys : IterEq(find(m, key), end)
     /\ m.bucket_count = bucket_count
     /\ m.main_table = [main_table EXCEPT !.slot = <<>>]
     /\ m.collision_table = [collision_table EXCEPT !.slot = <<>>]
     /\ main_table.null => m = This

\* C13 witness: after clear() of a map that had entries in overflow slots.
C13_Witness ==
  /\ last = Call("clear", "overflow")
  /\ element_count = 0
  /\ bucket_count >= BaselineCapacity

\* m and other hold the same pairs: same count, same stored pairs, and every
\* key looked up gives the same result.
SamePairs(m, other) ==
  /\ m.element_count = other.element_count
  /\ StoredPairs(m) = StoredPairs(other)
  /\ \A key \in Keys : Lookup(m, key) = Lookup(other, key)

\* Neither of the maps a and b observes an insert or a remove made on the
\* other.
Independent(a, b) ==
  \A key \in Keys :
    /\ \A value \in Values :
         /\ Seen(b, a, try_insert(a, key, value).m) = b
         /\ Seen(a, b, try_insert(b, key, value).m) = a
    /\ Seen(b, a, remove_key(a, key).m) = b
    /\ Seen(a, b, remove_key(b, key).m) = a

\* C14: a copy-constructed map holds exactly the pairs of the original and
\* neither map observes a later insert or remove on the other, in every
\* instantiation.
C14_CopyConstruct ==
  \A value_offset \in ValueOffsets :
    \A junk \in PaddingReads(This, value_offset) :
      LET copy == copy_construct(This, value_offset, junk)
      IN SamePairs(copy, This) /\ Independent(This, copy)

\* C14 for HashMap<int, int>, where the value member follows the key.
C14_CopyConstructIntInt ==
  LET copy == copy_construct(This, OffsetOfIntValue, <<>>)
  IN SamePairs(copy, This) /\ Independent(This, copy)

\* C15: move construction leaves the new map with the pairs the source held
\* and the source empty.
C15_MoveConstruct ==
  LET r == move_construct(This, OffsetOfIntValue, <<>>)
  IN SamePairs(r.target, This) /\ r.source.element_count = 0

\* C15, what the code does for HashMap<int, int>: the new map holds the
\* pairs and the source keeps them.
C15_MoveConstructCopies ==
  LET r == move_construct(This, OffsetOfIntValue, <<>>)
  IN SamePairs(r.target, This) /\ r.source = This

\* C16: move assignment leaves the target with exactly the pairs the source
\* held and the source empty.
C16_MoveAssign ==
  \A m \in SecondMaps :
    LET r == move_assign(m, This, OffsetOfIntValue, <<>>)
    IN SamePairs(r.target, This) /\ r.source.element_count = 0

\* C17: self-assignment leaves size() and every pair as they were.
C17_SelfAssign ==
  SamePairs(assign_self(This, OffsetOfIntValue, <<>>), This)

\* C17, what the code does: self-assignment is clear().
C17_SelfAssignClears ==
  \A value_offset \in ValueOffsets :
    assign_self(This, value_offset, <<>>) = clear(This)

\* C18: copy assignment between two distinct maps leaves the target with
\* exactly the pairs of the source and the source unchanged, in every
\* instantiation.
C18_CopyAssign ==
  \A m \in SecondMaps, value_offset \in ValueOffsets :
    \A junk \in PaddingReads(This, value_offset) :
      LET r == assign_at(m, This, value_offset, junk)
      IN SamePairs(r, This) /\ Seen(This, m, r) = This

\* C18 for HashMap<int, int>, where the value member follows the key.
C18_CopyAssignIntInt ==
  \A m \in SecondMaps :
    LET r == assign_at(m, This, OffsetOfIntValue, <<>>)
    IN SamePairs(r, This) /\ Seen(This, m, r) = This

\* The sizes asked of reserve: 0 and, around each power of two up to
\* 2^MaxAskLog, the power itself and the number after it.
Asks == {0} \cup {2 ^ i : i \in 0 .. MaxAskLog} \cup {2 ^ i + 1 : i \in 0 .. MaxAskLog}

RECURSIVE InsertRange(_, _, _)
InsertRange(m, lo, hi) ==
  IF lo > hi THEN m
  ELSE IF lo = hi THEN try_insert(m, lo, MinOf(Values)).m
  ELSE LET mid == (lo + hi) \div 2
           lower == InsertRange(m, lo, mid)
       IN IF lower.aborted THEN lower ELSE InsertRange(lower, mid + 1, hi)

ScenarioB ==
  LET reserved == reserve(HashMapInit, ScenarioReserve)
      filled == InsertRange(reserved, 0, ScenarioKeys - 1)
  IN /\ filled.bucket_count = reserved.bucket_count
     /\ reserved.bucket_count >= ScenarioReserve
     /\ filled.element_count = ScenarioKeys
     /\ \A key \in 0 .. (ScenarioKeys - 1) : ~IterEq(find(filled, key), end)

\* C20: after reserve(n) on an empty map, inserts of up to n keys whose home
\* buckets are pairwise distinct cause no growth: the capacity stays the
\* reserved one and every key is found; so it is in Scenario B under the
\* identity hash.
C20_ReserveThenInsert ==
  /\ shadow.reserved # NoReserve =>
       /\ bucket_count = shadow.reserved.capacity
       /\ element_count = Cardinality(DOMAIN shadow.map)
       /\ \A key \in DOMAIN shadow.map : Lookup(This, key) = <<key, shadow.map[key]>>
  /\ (main_table.null /\ hash_kind = "identity") => ScenarioB

\* C20 witness: reserve(n) and n inserts, all of it within the reserved
\* capacity.
C20_Witness ==
  /\ shadow.reserved # NoReserve
  /\ shadow.reserved.n >= 2
  /\ element_count = shadow.reserved.n
  /\ last.op = "insert"

\* C21: with the degenerate hash (every key in bucket 0), after ScenarioDKeys
\* distinct keys were inserted and while they are removed in any order, every
\* key inserted and not yet removed is found with its own value, the removed
\* ones are not found, size() is the number of keys left (0 at the end), and
\* removing any key that is left takes exactly that key away.
C21_DegenerateHash ==
  /\ element_count = Cardinality(DOMAIN shadow.map)
  /\ \A key \in DOMAIN shadow.map : Lookup(This, key) = <<key, OwnValue(key)>>
  /\ \A key \in DegenerateKeys \ DOMAIN shadow.map : Lookup(This, key) = <<>>
  /\ \A key \in DOMAIN shadow.map :
       LET after == remove_key(This, key).m
       IN /\ after.element_count = element_count - 1
          /\ Lookup(after, key) = <<>>
          /\ \A k \in DOMAIN shadow.map \ {key} : Lookup(after, k) = <<k, OwnValue(k)>>

\* C21 witness: all ScenarioDKeys keys went in (the fifth colliding key made
\* the table grow up to LargeTableLimit) and the last of them was just removed.
C21_Witness ==
  /\ hash_kind = "zero"
  /\ last.op = "remove"
  /\ element_count = 0
  /\ shadow.map = <<>>
  /\ bucket_count = LargeTableLimit

ValuePairs ==
  {vv \in (Values \cup {DefaultValue}) \X (Values \cup {DefaultValue}) : vv[1] # vv[2]}

C24_LazyAllocation ==
  /\ last.op = "construct" => main_table.null
  /\ main_table.null =>
       /\ element_count = 0
       /\ bucket_count = 0
       /\ collision_table.null
       /\ \A key \in Keys :
            /\ IterEq(find(This, key), end)
            /\ remove_key(This, key).m = This
       /\ clear(This) = This
       /\ IterEq(begin(This), end)
       /\ Walk(This, begin(This)) = <<>>
       /\ \A key \in Keys, value \in Values \cup {DefaultValue} :
            LET first == try_insert(This, key, value).m
            IN /\ ~first.main_table.null /\ first.main_table.size = BaselineCapacity
               /\ ~first.collision_table.null
               /\ first.collision_table.size = BaselineCapacity
               /\ first.bucket_count = BaselineCapacity
               /\ first.element_count = 1
               /\ subscript(This, key).m.bucket_count = BaselineCapacity

\* C24 witness: clear() was just called on a map that never allocated,
\* after find and remove had been (the run stays in insert-free states).
C24_Witness ==
  /\ main_table.null
  /\ last = Call("clear", "null")

\* C25: in every reachable state size() <= capacity, the number of live
\* slots included; an insert of a new key into a map whose count equals its
\* capacity grows the table, and the count is within the capacity afterwards.
C25_CountWithinCapacity ==
  /\ element_count <= bucket_count
  /\ Cardinality(LiveSlots(This)) <= bucket_count
  /\ \A key \in Keys :
       LET after == try_insert(This, key, MinOf(Values)).m
       IN /\ after.element_count <= after.bucket_count
          /\ (key \notin StoredKeys(This) /\ element_count = bucket_count)
               => after.bucket_count > bucket_count

\* C25 witness: a full table (count = capacity = 4) one of whose entries is
\* in an overflow slot, so that a primary slot is still free: a new key
\* whose home is that slot collides with nothing.
C25_Witness ==
  /\ last.op = "insert"
  /\ bucket_count = 4
  /\ element_count = bucket_count
  /\ DOMAIN collision_table.slot # {}
  /\ \E key \in Keys \ StoredKeys(This) : isInvalid(ChainLength(This, HomeBucket(key, bucket_count)))

\* A call that ends by an exception of the given kind, the object left as m.
Thrown(what, m) == [how |-> "throw", what |-> what, m |-> m]

\* C26 as stated: when the memory provider cannot satisfy a request made by
\* reserve or by a growth inside insert, the call ends with an
\* allocation-failure error for the caller and the map is as before the
\* call (capacity, count, arrays, entries).
C26_AllocationFailureSurfaced ==
  \A failing \in AllocateCalls :
    /\ \A n \in Asks :
         Ends(reserve_failing(This, n, failing)) = Thrown("bad_alloc", This)
    /\ \A key \in Keys :
         LET after == try_insert_failing(This, key, MinOf(Values), failing)
         IN after # try_insert(This, key, MinOf(Values)).m
              => Ends(after) = Thrown("bad_alloc", This)

\* What holds instead: such a call never comes back, neither by a return
\* nor by an exception; the process is terminated; and if the request for
\* main_table failed the members are still those before the call.
C26_AllocationFailureTerminates ==
  \A failing \in AllocateCalls :
    /\ \A n \in Asks :
         /\ Ends(reserve_failing(This, n, failing)) = [how |-> "terminate"]
         /\ failing = 1 => reserve_failing(This, n, failing) = [This EXCEPT !.aborted = TRUE]
    /\ \A key \in Keys :
         LET after == try_insert_failing(This, key, MinOf(Values), failing)
         IN after # try_insert(This, key, MinOf(Values)).m
              => Ends(after) = [how |-> "terminate"]

\* The capacities that are not a power of two, among those tried.
NotPowersOfTwo == {n \in 1 .. 17 : ~IsPowerOfTwo(n)}

BeyondRange == {SizeMaxHalf}

\* C28 as stated: reserve(n) with n at or above half the maximum size value
\* terminates the process; no error comes back to the caller.
C28_ReserveBeyondRangeFatal ==
  \A n \in BeyondRange : Ends(reserve(This, n)) = [how |-> "terminate"]

\* What holds instead: reserve(n) with such an n leaves by a std::range_error
\* the caller can catch, with the map exactly as before the call.
C28_ReserveBeyondRangeThrows ==
  \A n \in BeyondRange : Ends(reserve(This, n)) = Thrown("range_error", This)

\* C29 as stated: the bytes written for a map (its count, then each pair in
\* traversal order), restored into any target map, give a target with the
\* size and the pairs of the source and none of its own former entries.
C29_PersistenceRoundTrip ==
  \A target \in SecondMaps :
    LET restored == serialize_map_read(serialize_map_write(This, OffsetOfIntValue, <<>>),
                                       target, MemberTypes)
    IN /\ restored.how = "return"
       /\ restored.m.element_count = element_count
       /\ StoredPairs(restored.m) = StoredPairs(This)

\* What holds instead, for HashMap<int, int>: the bytes written are the
\* count and then the pairs in traversal order; restoring into a HashMap is
\* ill-formed whatever the bytes and the target; a map type that did declare
\* key_type and mapped_type would get back size and pairs of the source.
C29_WriteOnly ==
  LET buffer == serialize_map_write(This, OffsetOfIntValue, <<>>)
      order == TraversalOrder(This)
      at(i) == SizeofSizeT + (i - 1) * (SizeofKeyType + SizeofMappedType)
  IN /\ Len(buffer) = SizeofSizeT + element_count * (SizeofKeyType + SizeofMappedType)
     /\ read(SubSeq(buffer, 1, SizeofSizeT)) = element_count
     /\ \A i \in 1 .. Len(order) :
          /\ read(SubSeq(buffer, at(i) + 1, at(i) + SizeofKeyType)) = Deref(This, order[i]).key
          /\ read(SubSeq(buffer, at(i) + SizeofKeyType + 1, at(i + 1)))
               = Deref(This, order[i]).value
     /\ \A target \in SecondMaps :
          /\ serialize_map_read(buffer, target, MemberTypes) = [how |-> "ill_formed"]
          /\ LET restored == serialize_map_read(buffer, target,
                                                MemberTypes \cup NamedMemberTypes)
             IN /\ restored.how = "return"
                /\ restored.m.element_count = element_count
                /\ StoredPairs(restored.m) = StoredPairs(This)

\* C30: SpinMutex gives mutual exclusion.  At most one thread holds the
\* mutex at a time, is_locked is set exactly while some thread holds it, and a
\* thread between its acquisition and its unlock() is the holder.  try_lock()
\* returns false when the mutex is held at its deciding read (by another
\* thread or by the caller) and true when it is free, and never waits: from
\* either of its two steps the caller's next step is enabled and moves it
\* on.  The counter equals the increments completed, so when the NumThreads
\* threads have each done their Iterations increments it is
\* NumThreads * Iterations.
InCritical == {t \in Threads : pc[t] \in {"critical_load", "critical_store", "unlock"}}

Increments(t) == iteration[t] + (IF pc[t] = "unlock" THEN 1 ELSE 0)

RECURSIVE Total(_)
Total(ts) ==
  IF ts = {} THEN 0
  ELSE LET t == CHOOSE u \in ts : TRUE IN Increments(t) + Total(ts \ {t})

C30_SpinMutex ==
  /\ Cardinality(Held) <= 1
  /\ is_locked <=> Held # {}
  /\ InCritical \subseteq Held
  /\ \A t \in Threads :
       /\ tried[t].called => tried[t].result = ~tried[t].held
       /\ pc[t] \in {"try_load", "try_exchange"} =>
            ENABLED <<TryLoad(t) \/ TryExchange(t)>>_pc
  /\ shared_counter = Total(Threads)
  /\ (\A t \in Threads : pc[t] = "done") => shared_counter = NumThreads * Iterations

\* All threads are done, the counter is NumThreads * Iterations, one thread's
\* last try_lock() returned false on a held mutex and another's returned true.
C30_Witness ==
  /\ \A t \in Threads : pc[t] = "done"
  /\ shared_counter = NumThreads * Iterations
  /\ \E t \in Threads : tried[t] = [called |-> TRUE, result |-> FALSE, held |-> TRUE]
  /\ \E t \in Threads : tried[t] = [called |-> TRUE, result |-> TRUE, held |-> FALSE]

\* The reference lookup: with b = hash(key) & (capacity - 1), the slots that
\* hold the key are primary[b] when it is live with an equal key, and the
\* slots among the span(b) overflow slots from b on (wrapping) whose owner is
\* b and whose key is equal.
ReferenceLookup(m, key) ==
  IF m.bucket_count = 0 THEN {}
  ELSE LET b == Masked(HashFunction(key), m.bucket_count - 1)
       IN IF isInvalid(ChainLength(m, b)) THEN {}
          ELSE (IF m.main_table.slot[b].key = key
                THEN {iterator(b, invalid_marker, MainPtr(b))} ELSE {})
                 \cup {iterator(b, i, CollisionPtr(i)) : i \in
                         {j \in Window(m, b) : MainIndex(m, j) = b
                                                /\ m.collision_table.slot[j].key = key}}

\* C31: for every reachable table and every key, find returns what the
\* reference lookup returns: a cursor with a slot iff the reference lookup
\* has a slot for the key, and then exactly the cursor (home bucket, overflow
\* index, slot) the reference lookup gives.
C31_FindMatchesReference ==
  \A key \in Keys :
    LET iter == find(This, key)
        ref == ReferenceLookup(This, key)
    IN /\ (iter.value_ptr # nullptr) <=> (ref # {})
       /\ iter.value_ptr # nullptr => ref = {iter}
       /\ IterEq(iter, end) <=> (ref = {})

\* C31 witness: a find that hit in a table where the key of a wrapped span
\* lies in an overflow slot before its home index, behind a slot of another
\* bucket.
C31_Witness ==
  /\ last = Call("find", "hit")
  /\ \E b \in DOMAIN main_table.slot :
       \E i \in Owned(This, b) :
         /\ i < b
         /\ \E j \in Window(This, b) : j < i /\ MainIndex(This, j) \notin {b, invalid_marker}
         /\ find(This, collision_table.slot[i].key).value_ptr = CollisionPtr(i)

\* The absent keys of m whose home primary slot is occupied, the home slot of
\* a key, and the span an insert into bucket b would need: the old span plus
\* one plus the occupied overflow slots passed from index b + old span on.
Home(m, key) == Masked(HashFunction(key), m.bucket_count - 1)
Colliding(m) ==
  {key \in Keys \ StoredKeys(m) :
     ~m.main_table.null /\ ~isInvalid(ChainLength(m, Home(m, key)))}
NewSpan(m, b) ==
  LET s == ChainLength(m, b)
  IN 1 + MinOf({d \in s .. (s + m.bucket_count - 1) :
                  isInvalid(MainIndex(m, Masked(b + d, m.bucket_count - 1)))})

\* The entry of an insert that did not grow the table went to an overflow
\* slot and the capacity is the old one.
PlacedInOverflow(m, r) ==
  /\ r.m.bucket_count = m.bucket_count
  /\ r.second
  /\ r.first.value_ptr.tab = "collision"
  /\ r.m.main_table.base = m.main_table.base

\* C32 as stated: an insert of an absent key with an occupied home slot b
\* grows the table exactly when (a) b's old span is 0, the capacity is below
\* the small-table threshold and below 4 times the live count, or (b)
\* new_span >= 4 below the higher ceiling, or (c) new_span >= capacity / 2;
\* otherwise the entry goes to the overflow array at the same capacity.
C32_GrowthTriggers ==
  \A key \in Colliding(This), value \in Values :
    LET b == Home(This, key)
        new_span == NewSpan(This, b)
        r == try_insert(This, key, value)
        trigger == \/ /\ ChainLength(This, b) = 0
                      /\ bucket_count < SmallTableLimit
                      /\ bucket_count < 4 * element_count
                   \/ new_span >= ChainLimit /\ bucket_count < LargeTableLimit
                   \/ new_span >= bucket_count \div 2
    IN IF trigger THEN r.m.bucket_count > bucket_count
       ELSE PlacedInOverflow(This, r)

\* C32 as the code has it: the early trigger does not look at b's old span,
\* and a table whose live count equals its capacity grows before anything
\* else.  Growth exactly when (a) the capacity is below the small-table
\* threshold and below 4 times the live count, or (b) new_span >= 4 below the
\* higher ceiling, or (c) new_span >= capacity / 2, or (d) the live count
\* equals the capacity; otherwise the entry goes to the overflow array at the
\* same capacity.
C32_GrowthTriggersAnyCollision ==
  \A key \in Colliding(This), value \in Values :
    LET b == Home(This, key)
        new_span == NewSpan(This, b)
        r == try_insert(This, key, value)
        trigger == \/ /\ bucket_count < SmallTableLimit
                      /\ bucket_count < 4 * element_count
                   \/ new_span >= ChainLimit /\ bucket_count < LargeTableLimit
                   \/ new_span >= bucket_count \div 2
                   \/ bucket_count < element_count + 1
    IN IF trigger THEN r.m.bucket_count > bucket_count
       ELSE PlacedInOverflow(This, r)

\* C32 witness: after an insert, a table with a colliding absent key whose
\* bucket already has overflow entries, with the capacity below 4 times the
\* count and the new span below 4 and below half the capacity; and another
\* colliding key whose insert would not grow the table.
C32_Witness ==
  /\ last.op = "insert"
  /\ \E key \in Colliding(This) :
       /\ ChainLength(This, Home(This, key)) > 0
       /\ bucket_count < 4 * element_count
       /\ NewSpan(This, Home(This, key)) < ChainLimit
       /\ NewSpan(This, Home(This, key)) < bucket_count \div 2
       /\ try_insert(This, key, MinOf(Values)).m.bucket_count > bucket_count

\* A reallocation that exactly doubles the capacity (0 becomes the baseline),
\* and a run of reallocations that starts at capacity `from`, each starting
\* where the one before it ended, and ends at capacity `to`.
Doubles(event) ==
  \/ event.from > 0 /\ event.to = 2 * event.from
  \/ event.from = 0 /\ event.to = BaselineCapacity
Consecutive(events, from, to) ==
  /\ \A i \in DOMAIN events :
       events[i].from = (IF i = 1 THEN from ELSE events[i - 1].to)
  /\ to = (IF events = <<>> THEN from ELSE events[Len(events)].to)

Range(f) == {f[i] : i \in DOMAIN f}

\* What insert(key, value) does to the capacity of the map as it is.
InsertDoubles(key, value) ==
  LET r == try_insert(This, key, value)
      events == r.m.resized
  IN /\ \A event \in Range(events) : Doubles(event)
     /\ Consecutive(events, bucket_count, r.m.bucket_count)
     /\ events # <<>> =>
          /\ StoredPairs(r.m) = StoredPairs(This) \cup {<<key, value>>}
          /\ r.m.main_table.size = r.m.bucket_count
          /\ r.m.collision_table.size = r.m.bucket_count
          /\ \A p \in StoredPairs(r.m) : Lookup(r.m, p[1]) = p

C34_PlacementWithoutGrowth ==
  \A key \in Keys \ StoredKeys(This), value \in Values :
    LET r == try_insert(This, key, value)
        b == Home(This, key)
    IN (~main_table.null /\ r.m.resized = <<>>) =>
         /\ r.m.bucket_count = bucket_count
         /\ r.m.element_count = element_count + 1
         /\ r.second
         /\ IF isInvalid(ChainLength(This, b))
            THEN /\ r.m.main_table.slot =
                      Put(main_table.slot, b,
                          [key |-> key, value |-> value, chain_length |-> 0])
                 /\ r.m.collision_table = collision_table
                 /\ r.first.value_ptr = MainPtr(b)
            ELSE LET new_span == NewSpan(This, b)
                     target == Masked(b + new_span - 1, bucket_count - 1)
                     skipped == {d \in ChainLength(This, b) .. (new_span - 2) :
                                   ~isInvalid(MainIndex(This, Masked(b + d, bucket_count - 1)))}
                 IN /\ isInvalid(MainIndex(This, target))
                    /\ new_span = ChainLength(This, b) + 1 + Cardinality(skipped)
                    /\ r.m.collision_table.slot =
                         Put(collision_table.slot, target,
                             [key |-> key, value |-> value, main_index |-> b])
                    /\ r.m.main_table.slot =
                         Put(main_table.slot, b,
                             [main_table.slot[b] EXCEPT !.chain_length = new_span])
                    /\ r.first.value_ptr = CollisionPtr(target)

\* C34 witness: after an insert that went to an overflow slot, a table with
\* an absent key whose insert reallocates nothing and passes over a slot of
\* another bucket on its way to an EMPTY overflow slot.
C34_Witness ==
  /\ last = Call("insert", "chain")
  /\ \E key \in Colliding(This) :
       /\ try_insert(This, key, MinOf(Values)).m.resized = <<>>
       /\ NewSpan(This, Home(This, key)) > ChainLength(This, Home(This, key)) + 1

\* The overflow index at which remove reads the tail entry of bucket b.
TailIndex(m, b) == Masked(b + ChainLength(m, b) - 1, m.bucket_count - 1)

\* C35: for every occupied primary slot b with span s > 0 the overflow slot
\* at (b + s - 1) mod capacity is live and owned by b, so the entry remove
\* reads there, for a cursor at any live entry of the bucket, is an entry of
\* bucket b.
C35_SpanTight ==
  /\ \A b \in DOMAIN main_table.slot :
       ChainLength(This, b) > 0 =>
         /\ TailIndex(This, b) \in DOMAIN collision_table.slot
         /\ MainIndex(This, TailIndex(This, b)) = b
         /\ TailIndex(This, b) = (b + ChainLength(This, b) - 1) % bucket_count
  /\ \A iter \in Cursors(This) :
       LET b == IF isInvalid(iter.bucket_index) THEN MainIndex(This, iter.collision_index)
                ELSE iter.bucket_index
       IN (~isInvalid(iter.collision_index) \/ ChainLength(This, b) > 0) =>
            /\ ChainLength(This, b) > 0
            /\ MainIndex(This, TailIndex(This, b)) = b

\* C35 witness: after a removal, a table in which one more removal shortens
\* a span by two or more, walking back over a slot that is not the
\* bucket's, to a tail that remains.
C35_Witness ==
  /\ last.op = "remove"
  /\ \E key \in StoredKeys(This) :
       LET b == Home(This, key)
           m == remove_key(This, key).m
       IN /\ ChainLength(m, b) >= 1
          /\ ChainLength(m, b) <= ChainLength(This, b) - 2

\* The cursors a caller can hold at live entries of m: those find returns,
\* those a walk from begin() passes through, and those a cursor from find
\* becomes when it is stepped on with ++.
SteppedCursors(m) ==
  Cursors(m) \cup UNION {Range(Walk(m, find(m, key))) : key \in StoredKeys(m)}

\* The bucket an entry belongs to, and the key and value a live slot holds.
OwnerOf(m, ptr) == IF ptr.tab = "main" THEN ptr.idx ELSE MainIndex(m, ptr.idx)
PairAt(m, ptr) == <<Deref(m, ptr).key, Deref(m, ptr).value>>

\* What C36 says of remove(iter) on m: capacity and arrays are kept, the
\* count drops by one, every other bucket keeps its span, and every other
\* live entry keeps its slot, except that the erased bucket's former tail may
\* have moved into the vacated slot.
EraseFrame(m, iter) ==
  LET r == remove(m, iter)
      erased == iter.value_ptr
      b == OwnerOf(m, erased)
      others == LiveSlots(m) \ {erased}
      moved == {p \in others : p \notin LiveSlots(r.m) \/ PairAt(r.m, p) # PairAt(m, p)}
  IN /\ r.m.bucket_count = m.bucket_count
     /\ r.m.main_table.size = m.main_table.size
     /\ r.m.main_table.base = m.main_table.base
     /\ r.m.collision_table.size = m.collision_table.size
     /\ r.m.collision_table.base = m.collision_table.base
     /\ r.m.element_count = m.element_count - 1
     /\ \A other \in DOMAIN m.main_table.slot \ {b} :
          ChainLength(r.m, other) = ChainLength(m, other)
     /\ LiveSlots(r.m) \subseteq LiveSlots(m)
     /\ Cardinality(moved) <= 1
     /\ \A p \in moved :
          /\ p = CollisionPtr(TailIndex(m, b))
          /\ erased \in LiveSlots(r.m)
          /\ PairAt(r.m, erased) = PairAt(m, p)
          /\ OwnerOf(r.m, erased) = b
     /\ StoredPairs(r.m) = {PairAt(m, p) : p \in others}

\* C36: erase(cursor), for every cursor a caller can hold at a live entry,
\* changes only the erased entry's bucket: capacity and both arrays are
\* kept, every other bucket keeps its span, and every other live entry stays
\* in its slot except that the erased bucket's former tail may move into the
\* vacated slot.
C36_EraseFrame ==
  \A iter \in SteppedCursors(This) : EraseFrame(This, iter)

\* C36, for the cursors find returns and those a walk from begin() passes
\* through.
C36_EraseFrameFreshCursor ==
  \A iter \in Cursors(This) : EraseFrame(This, iter)

\* A traversal from the cursor `iter` on: the entry under the cursor is
\* presented, then erased (going on from the cursor remove returns) when its
\* key is in `erasing`, else stepped over with ++, until the cursor equals
\* end() or `fuel` entries were presented.
RECURSIVE Traverse(_, _, _, _)
Traverse(m, iter, erasing, fuel) ==
  IF IterEq(iter, end) THEN [presented |-> <<>>, ended |-> TRUE, m |-> m]
  ELSE IF fuel = 0 THEN [presented |-> <<>>, ended |-> FALSE, m |-> m]
  ELSE LET key == Deref(m, iter.value_ptr).key
           r == IF key \in erasing THEN remove(m, iter)
                ELSE [m |-> m, iter |-> Incr(m, iter)]
           rest == Traverse(r.m, r.iter, erasing, fuel - 1)
       IN [presented |-> <<key>> \o rest.presented, ended |-> rest.ended, m |-> rest.m]

\* C37: a traversal from begin() that erases some entries and steps over the
\* others ends at end() and presents every entry that was live at the start
\* exactly once, whichever entries it erases.
C37_ErasingTraversal ==
  \A erasing \in SUBSET StoredKeys(This) :
    LET t == Traverse(This, begin(This), erasing, 2 * element_count + 1)
    IN /\ t.ended
       /\ Range(t.presented) = StoredKeys(This)
       /\ Len(t.presented) = element_count

\* C37, the part the code keeps: the traversal ends at end(), presents every
\* entry at least once and leaves exactly the entries it did not erase; it
\* presents every entry exactly once when it erases all of them (clear()) or
\* none.
C37_TraversalCoversAll ==
  \A erasing \in SUBSET StoredKeys(This) :
    LET t == Traverse(This, begin(This), erasing, 2 * element_count + 1)
    IN /\ t.ended
       /\ Range(t.presented) = StoredKeys(This)
       /\ StoredKeys(t.m) = StoredKeys(This) \ erasing
       /\ erasing \in {{}, StoredKeys(This)} => Len(t.presented) = element_count

\* Every live overflow slot's owner index designates an occupied primary slot,
\* every stored key resides in its home bucket, and begin() of a non-empty
\* map starts in the primary array.
InHomeBuckets(m) ==
  /\ \A i \in DOMAIN m.collision_table.slot :
       /\ MainIndex(m, i) \in DOMAIN m.main_table.slot
       /\ Home(m, m.collision_table.slot[i].key) = MainIndex(m, i)
  /\ \A i \in DOMAIN m.main_table.slot : Home(m, m.main_table.slot[i].key) = i
  /\ m.element_count > 0 => begin(m).value_ptr.tab = "main"

\* C38: in every reachable state, the states erase(cursor) leads to
\* included, every live overflow slot's owner index designates an occupied
\* primary slot and every stored key resides in its home bucket (a primary
\* entry at index i and an overflow entry with owner i both have
\* hash(key) & (capacity - 1) = i), so begin() of a non-empty map starts in
\* the primary array.
C38_HomeBucket ==
  /\ InHomeBuckets(This)
  /\ \A iter \in SteppedCursors(This) : InHomeBuckets(remove(This, iter).m)

\* C38, the part the code keeps: the property holds in every state reached
\* by insert, operator[], remove(key), reserve, clear and assignment, and
\* after erase(cursor) with a cursor from find or from a walk that started
\* at begin().
C38_HomeBucketFreshCursor ==
  /\ InHomeBuckets(This)
  /\ \A iter \in Cursors(This) : InHomeBuckets(remove(This, iter).m)

\* Every stored span s > 0 is below half the capacity, and a table of
\* capacity 1 holds no overflow entry.
SpansBelowHalf(m) ==
  /\ \A b \in DOMAIN m.main_table.slot :
       ChainLength(m, b) > 0 => ChainLength(m, b) < m.bucket_count \div 2
  /\ m.bucket_count = 1 => DOMAIN m.collision_table.slot = {}

\* C39: in every reachable state, the states erase(cursor) leads to
\* included, every stored span s > 0 satisfies s < capacity / 2 (integer
\* division), so no probe window wraps around onto itself and a table of
\* capacity 1 never holds an overflow entry.
C39_SpanBelowHalf ==
  /\ SpansBelowHalf(This)
  /\ \A b \in DOMAIN main_table.slot :
       Cardinality(Window(This, b)) = ChainLength(This, b)
  /\ \A iter \in SteppedCursors(This) : SpansBelowHalf(remove(This, iter).m)

\* C39 witness: an insert stored a span that is the largest the capacity
\* admits.
C39_Witness ==
  /\ last.op = "insert"
  /\ \E b \in DOMAIN main_table.slot :
       ChainLength(This, b) > 0 /\ ChainLength(This, b) + 1 = bucket_count \div 2

\* The overflow array of an allocated table has an EMPTY slot.
FreeOverflow(m) ==
  m.main_table.null \/ Cardinality(DOMAIN m.collision_table.slot) < m.bucket_count

\* The reallocations that lead from BaselineCapacity to LargeTableLimit by
\* doubling, and the one that allocates BaselineCapacity.
DoublingsToLargeTable ==
  1 + Cardinality({i \in 1 .. 20 : BaselineCapacity * 2 ^ i <= LargeTableLimit})

\* insert(key, value) on the map m returns, with the key stored, after at
\* most DoublingsToLargeTable reallocations that end at a capacity of at most
\* LargeTableLimit (or the capacity m has), and leaves an EMPTY overflow slot.
InsertEnds(m, key, value) ==
  LET r == try_insert(m, key, value)
  IN /\ ~r.m.aborted /\ ~r.m.thrown
     /\ r.first.value_ptr \in LiveSlots(r.m)
     /\ Deref(r.m, r.first.value_ptr).key = key
     /\ find(r.m, key).value_ptr = r.first.value_ptr
     /\ r.m.element_count = m.element_count + (IF r.second THEN 1 ELSE 0)
     /\ Len(r.m.resized) <= DoublingsToLargeTable
     /\ \A event \in Range(r.m.resized) : Doubles(event)
     /\ r.m.bucket_count <= (IF m.bucket_count > LargeTableLimit THEN m.bucket_count
                             ELSE LargeTableLimit)
     /\ FreeOverflow(r.m)

\* C40: with a hash function that maps every key to one bucket, every insert
\* returns with the key stored after finitely many capacity doublings (the
\* capacity stays at or below LargeTableLimit), and whenever insert probes
\* the overflow array for an EMPTY slot the array has one.
C40_InsertTerminates ==
  /\ FreeOverflow(This)
  /\ ~main_table.null => element_count <= bucket_count
  /\ \A key \in DegenerateKeys : InsertEnds(This, key, OwnValue(key))

\* C40 witness: the insert of the fifth key of the bucket doubled the
\* capacity from BaselineCapacity up to LargeTableLimit and stored the key.
C40_Witness ==
  /\ hash_kind = "zero"
  /\ last.op = "insert"
  /\ element_count = ChainLimit + 1
  /\ bucket_count = LargeTableLimit
  /\ Cardinality(DOMAIN collision_table.slot) = ChainLimit

====
